---- MODULE Spec2Model ----
(***************************************************************************)
(* The in-memory knowledge store of block-police                           *)
(* (src/mcp/metta/knowledge_base.py, class MeTTaKnowledgeBase): the four   *)
(* stores, the operations that mutate and query them, the fund-flow        *)
(* tracer, the suspicious-pattern detectors and the snapshot serializer;   *)
(* and the generalized knowledge graph                                     *)
(* (src/mcps/metta/knowledge_graph.py, class KnowledgeGraph) over the      *)
(* space that module defines.                                              *)
(*                                                                         *)
(* Python values are modelled as tagged records [ty, v]:                   *)
(*   str   v = the tuple of its characters                                 *)
(*   int   v = its magnitude as little-endian limbs in base 10^6, no       *)
(*             leading zero limb (Python ints do not overflow)             *)
(*   none  v = <<>>                                                        *)
(*   bool  v = TRUE or FALSE                                               *)
(*   list  v = the tuple of its items                                      *)
(*   dict  v = the tuple of its <<key, value>> pairs in insertion order    *)
(***************************************************************************)
EXTENDS Integers, Sequences, FiniteSets, TLC

VARIABLES transaction_store, entity_store, pattern_store, relation_store,
          disk, knowledge_graph, last

vars == <<transaction_store, entity_store, pattern_store, relation_store,
          disk, knowledge_graph, last>>

-----------------------------------------------------------------------------
(* Python values *)

None == [ty |-> "none", v |-> <<>>]
True == [ty |-> "bool", v |-> TRUE]
False == [ty |-> "bool", v |-> FALSE]
PyStr(cs) == [ty |-> "str", v |-> cs]
PyInt(ls) == [ty |-> "int", v |-> ls]
PyList(xs) == [ty |-> "list", v |-> xs]
PyDict(ps) == [ty |-> "dict", v |-> ps]

\* bool(x): the truth value Python gives x in `if x:` and `not x`
Truthy(x) ==
  CASE x.ty = "none" -> FALSE
    [] x.ty = "bool" -> x.v
    [] OTHER -> x.v # <<>>

\* k in d
DictHas(d, k) == \E i \in 1..Len(d.v) : d.v[i][1] = k

DictIndex(d, k) == CHOOSE i \in 1..Len(d.v) : d.v[i][1] = k

\* d.get(k, default)
DictGet(d, k, default) == IF DictHas(d, k) THEN d.v[DictIndex(d, k)][2] ELSE default

\* d[k] = val: a present key keeps its position, a new key goes last
DictSet(d, k, val) ==
  IF DictHas(d, k)
  THEN PyDict([d.v EXCEPT ![DictIndex(d, k)] = <<k, val>>])
  ELSE PyDict(Append(d.v, <<k, val>>))

RECURSIVE DictUpdateFrom(_, _, _)
DictUpdateFrom(d, e, i) ==
  IF i > Len(e.v) THEN d
  ELSE DictUpdateFrom(DictSet(d, e.v[i][1], e.v[i][2]), e, i + 1)

\* d.update(e)
DictUpdate(d, e) == DictUpdateFrom(d, e, 1)

\* list(d.keys())
DictKeys(d) == [i \in 1..Len(d.v) |-> d.v[i][1]]

EmptyDict == PyDict(<<>>)

-----------------------------------------------------------------------------
(* Python integers: magnitudes as limbs in base 10^6 *)

LimbBase == 1000 * 1000

\* the limbs of m * a + c, for a small multiplier m and carry c
RECURSIVE BigMulAdd(_, _, _)
BigMulAdd(ls, m, c) ==
  IF ls = <<>>
  THEN (IF c = 0 THEN <<>> ELSE <<c>>)
  ELSE LET t == ls[1] * m + c
       IN  <<t % LimbBase>> \o BigMulAdd(Tail(ls), m, t \div LimbBase)

\* a > b on normalised limbs: more limbs is greater, else the top limbs decide
RECURSIVE BigGtFrom(_, _, _)
BigGtFrom(a, b, i) ==
  IF i = 0 THEN FALSE
  ELSE IF a[i] # b[i] THEN a[i] > b[i]
  ELSE BigGtFrom(a, b, i - 1)

BigGt(a, b) ==
  IF Len(a) # Len(b) THEN Len(a) > Len(b) ELSE BigGtFrom(a, b, Len(a))

\* a * 10**n
RECURSIVE BigTimesPow10(_, _)
BigTimesPow10(ls, n) == IF n = 0 THEN ls ELSE BigTimesPow10(BigMulAdd(ls, 10, 0), n - 1)

\* a small natural as an int
RECURSIVE NatLimbs(_)
NatLimbs(n) == IF n = 0 THEN <<>> ELSE <<n % LimbBase>> \o NatLimbs(n \div LimbBase)

\* an int known to be small, as a natural
RECURSIVE LimbsNat(_)
LimbsNat(ls) == IF ls = <<>> THEN 0 ELSE ls[1] + LimbBase * LimbsNat(Tail(ls))

Num(n) == PyInt(NatLimbs(n))

DigitChars == <<"0", "1", "2", "3", "4", "5", "6", "7", "8", "9">>

\* the decimal digits of a natural, most significant first
RECURSIVE NatDigits(_)
NatDigits(n) ==
  IF n < 10 THEN <<DigitChars[n + 1]>>
  ELSE NatDigits(n \div 10) \o <<DigitChars[(n % 10) + 1]>>

\* a limb below the top one prints as six digits
PadLimb(n) ==
  LET ds == NatDigits(n)
  IN  [i \in 1..(6 - Len(ds)) |-> "0"] \o ds

RECURSIVE LimbsDigits(_)
LimbsDigits(ls) ==
  IF Len(ls) = 1 THEN NatDigits(ls[1])
  ELSE LimbsDigits(SubSeq(ls, 2, Len(ls))) \o PadLimb(ls[1])

\* str(n) for an int n >= 0
IntToStr(x) == IF x.v = <<>> THEN <<"0">> ELSE LimbsDigits(x.v)

HexChars == <<"0", "1", "2", "3", "4", "5", "6", "7", "8", "9",
              "a", "b", "c", "d", "e", "f">>
HexUpper == <<"0", "1", "2", "3", "4", "5", "6", "7", "8", "9",
              "A", "B", "C", "D", "E", "F">>

IsHexChar(c) == \E i \in 1..16 : HexChars[i] = c \/ HexUpper[i] = c
HexVal(c) == (CHOOSE i \in 1..16 : HexChars[i] = c \/ HexUpper[i] = c) - 1

RECURSIVE HexFold(_, _, _)
HexFold(cs, i, acc) ==
  IF i > Len(cs) THEN acc
  ELSE HexFold(cs, i + 1, BigMulAdd(acc, 16, HexVal(cs[i])))

HexBody(cs) ==
  IF Len(cs) >= 2 /\ cs[1] = "0" /\ cs[2] \in {"x", "X"}
  THEN SubSeq(cs, 3, Len(cs)) ELSE cs

\* int(s, 16): the value, or a ValueError when s is not a hexadecimal literal
IntBase16(s) ==
  LET body == HexBody(s.v)
  IN  IF body # <<>> /\ \A i \in 1..Len(body) : IsHexChar(body[i])
      THEN [exc |-> "", val |-> PyInt(HexFold(body, 1, <<>>))]
      ELSE [exc |-> "ValueError", val |-> None]

-----------------------------------------------------------------------------
(* The string literals of knowledge_base.py *)

K_from == PyStr(<<"f", "r", "o", "m">>)
K_to == PyStr(<<"t", "o">>)
K_value == PyStr(<<"v", "a", "l", "u", "e">>)
K_timestamp == PyStr(<<"t", "i", "m", "e", "s", "t", "a", "m", "p">>)
K_hash == PyStr(<<"h", "a", "s", "h">>)
K_input == PyStr(<<"i", "n", "p", "u", "t">>)
K_type == PyStr(<<"t", "y", "p", "e">>)
K_transactions == PyStr(<<"t", "r", "a", "n", "s", "a", "c", "t", "i", "o", "n", "s">>)
K_tx_hash == PyStr(<<"t", "x", "_", "h", "a", "s", "h">>)
K_creator == PyStr(<<"c", "r", "e", "a", "t", "o", "r">>)
K_from_address == PyStr(<<"f", "r", "o", "m", "_", "a", "d", "d", "r", "e", "s", "s">>)
K_recipient_count == PyStr(<<"r", "e", "c", "i", "p", "i", "e", "n", "t", "_", "c", "o", "u", "n", "t">>)
K_transaction_count == PyStr(<<"t", "r", "a", "n", "s", "a", "c", "t", "i", "o", "n", "_", "c", "o", "u", "n", "t">>)
K_to_address == PyStr(<<"t", "o", "_", "a", "d", "d", "r", "e", "s", "s">>)
K_sender_count == PyStr(<<"s", "e", "n", "d", "e", "r", "_", "c", "o", "u", "n", "t">>)
K_addresses == PyStr(<<"a", "d", "d", "r", "e", "s", "s", "e", "s">>)
K_entity1 == PyStr(<<"e", "n", "t", "i", "t", "y", "1">>)
K_entity2 == PyStr(<<"e", "n", "t", "i", "t", "y", "2">>)
K_data == PyStr(<<"d", "a", "t", "a">>)
K_entities == PyStr(<<"e", "n", "t", "i", "t", "i", "e", "s">>)
K_patterns == PyStr(<<"p", "a", "t", "t", "e", "r", "n", "s">>)
K_relations == PyStr(<<"r", "e", "l", "a", "t", "i", "o", "n", "s">>)

S_address == PyStr(<<"a", "d", "d", "r", "e", "s", "s">>)
S_large_transfer == PyStr(<<"l", "a", "r", "g", "e", "_", "t", "r", "a", "n", "s", "f", "e", "r">>)
S_contract_creation == PyStr(<<"c", "o", "n", "t", "r", "a", "c", "t", "_", "c", "r", "e", "a", "t", "i", "o", "n">>)
S_fund_splitting == PyStr(<<"f", "u", "n", "d", "_", "s", "p", "l", "i", "t", "t", "i", "n", "g">>)
S_fund_merging == PyStr(<<"f", "u", "n", "d", "_", "m", "e", "r", "g", "i", "n", "g">>)
S_cyclic_transfers == PyStr(<<"c", "y", "c", "l", "i", "c", "_", "t", "r", "a", "n", "s", "f", "e", "r", "s">>)
S_0x == PyStr(<<"0", "x">>)
S_0 == PyStr(<<"0">>)
Colon == PyStr(<<":">>)

\* f"{a}:{b}"
Join2(a, b) == PyStr(a.v \o Colon.v \o b.v)
\* f"{a}:{b}:{c}"
Join3(a, b, c) == PyStr(a.v \o Colon.v \o b.v \o Colon.v \o c.v)

\* s.split(":"): the tuple of the pieces between the colons
RECURSIVE SplitFrom(_, _, _)
SplitFrom(cs, i, cur) ==
  IF i > Len(cs) THEN <<PyStr(cur)>>
  ELSE IF cs[i] = ":" THEN <<PyStr(cur)>> \o SplitFrom(cs, i + 1, <<>>)
  ELSE SplitFrom(cs, i + 1, Append(cur, cs[i]))

SplitColon(s) == SplitFrom(s.v, 1, <<>>)

-----------------------------------------------------------------------------
(* The store: MeTTaKnowledgeBase *)

KB == [transaction_store |-> transaction_store, entity_store |-> entity_store,
       pattern_store |-> pattern_store, relation_store |-> relation_store]

\* __init__
EmptyKB == [transaction_store |-> EmptyDict, entity_store |-> EmptyDict,
            pattern_store |-> EmptyDict, relation_store |-> EmptyDict]

\* {"type": "address", "transactions": []}
NewAddressEntity == PyDict(<<<<K_type, S_address>>, <<K_transactions, PyList(<<>>)>>>>)

\* mutant: the `if from_addr:` / `if to_addr:` test is dropped
link_endpoint_unguarded(es, addr, tx_data) ==
  LET es1 == IF DictHas(es, addr) THEN es ELSE DictSet(es, addr, NewAddressEntity)
      ent == DictGet(es1, addr, None)
      txs == DictGet(ent, K_transactions, None)
  IN  IF ~DictHas(ent, K_transactions) THEN [es |-> es1, exc |-> "KeyError"]
      ELSE IF txs.ty # "list" THEN [es |-> es1, exc |-> "AttributeError"]
      ELSE [es |-> DictSet(es1, addr,
                     DictSet(ent, K_transactions,
                             PyList(Append(txs.v, DictGet(tx_data, K_hash, None))))),
            exc |-> ""]

\* one endpoint of _extract_entities: create the record when missing, then
\* self._entity_store[addr]["transactions"].append(tx_data.get("hash"))
link_endpoint(es, addr, tx_data) ==
  IF ~Truthy(addr) THEN [es |-> es, exc |-> ""]
  ELSE LET es1 == IF DictHas(es, addr) THEN es ELSE DictSet(es, addr, NewAddressEntity)
           ent == DictGet(es1, addr, None)
           txs == DictGet(ent, K_transactions, None)
       IN  IF ~DictHas(ent, K_transactions) THEN [es |-> es1, exc |-> "KeyError"]
           ELSE IF txs.ty # "list" THEN [es |-> es1, exc |-> "AttributeError"]
           ELSE [es |-> DictSet(es1, addr,
                          DictSet(ent, K_transactions,
                                  PyList(Append(txs.v, DictGet(tx_data, K_hash, None))))),
                 exc |-> ""]

extract_entities(es, tx_data) ==
  LET from_addr == DictGet(tx_data, K_from, None)
      to_addr == DictGet(tx_data, K_to, None)
      r1 == link_endpoint(es, from_addr, tx_data)
  IN  IF r1.exc # "" THEN r1 ELSE link_endpoint(r1.es, to_addr, tx_data)

\* 100 * 10**18
LargeTransferThreshold == PyInt(BigTimesPow10(NatLimbs(100), 18))

\* the value _detect_patterns compares: a str is read as hexadecimal
transfer_value(tx_data) ==
  IF DictGet(tx_data, K_value, None).ty = "str"
  THEN IntBase16(DictGet(tx_data, K_value, S_0))
  ELSE [exc |-> "", val |-> DictGet(tx_data, K_value, Num(0))]

\* mutant: value >= 100 * 10**18
exceeds_threshold_inclusive(value) ==
  CASE value.ty = "int" -> [exc |-> "", val |-> ~BigGt(LargeTransferThreshold.v, value.v)]
    [] value.ty = "bool" -> [exc |-> "", val |-> FALSE]
    [] OTHER -> [exc |-> "TypeError", val |-> FALSE]

\* value > 100 * 10**18
exceeds_threshold(value) ==
  CASE value.ty = "int" -> [exc |-> "", val |-> BigGt(value.v, LargeTransferThreshold.v)]
    [] value.ty = "bool" -> [exc |-> "", val |-> FALSE]
    [] OTHER -> [exc |-> "TypeError", val |-> FALSE]

large_transfer_pattern(tx_hash, tx_data, value) ==
  PyDict(<<<<K_type, S_large_transfer>>, <<K_tx_hash, tx_hash>>, <<K_value, value>>,
           <<K_timestamp, DictGet(tx_data, K_timestamp, Num(0))>>>>)

contract_creation_pattern(tx_hash, tx_data) ==
  PyDict(<<<<K_type, S_contract_creation>>, <<K_tx_hash, tx_hash>>,
           <<K_creator, DictGet(tx_data, K_from, None)>>,
           <<K_timestamp, DictGet(tx_data, K_timestamp, Num(0))>>>>)

is_contract_creation(tx_data) ==
  ~Truthy(DictGet(tx_data, K_to, None)) /\ DictGet(tx_data, K_input, S_0x) # S_0x

\* mutant: the patterns of the new transaction replace the pattern store
detect_patterns_resetting(ps, tx_hash, tx_data) ==
  LET v == transfer_value(tx_data)
      gt == exceeds_threshold(v.val)
      ps1 == IF gt.val
             THEN DictSet(EmptyDict, Join2(S_large_transfer, tx_hash),
                          large_transfer_pattern(tx_hash, tx_data, v.val))
             ELSE EmptyDict
      ps2 == IF is_contract_creation(tx_data)
             THEN DictSet(ps1, Join2(S_contract_creation, tx_hash),
                          contract_creation_pattern(tx_hash, tx_data))
             ELSE ps1
  IN  IF v.exc # "" THEN [ps |-> ps, exc |-> v.exc]
      ELSE IF gt.exc # "" THEN [ps |-> ps, exc |-> gt.exc]
      ELSE [ps |-> ps2, exc |-> ""]

detect_patterns(ps, tx_hash, tx_data) ==
  LET v == transfer_value(tx_data)
      gt == exceeds_threshold(v.val)
      ps1 == IF gt.val
             THEN DictSet(ps, Join2(S_large_transfer, tx_hash),
                          large_transfer_pattern(tx_hash, tx_data, v.val))
             ELSE ps
      ps2 == IF is_contract_creation(tx_data)
             THEN DictSet(ps1, Join2(S_contract_creation, tx_hash),
                          contract_creation_pattern(tx_hash, tx_data))
             ELSE ps1
  IN  IF v.exc # "" THEN [ps |-> ps, exc |-> v.exc]
      ELSE IF gt.exc # "" THEN [ps |-> ps, exc |-> gt.exc]
      ELSE [ps |-> ps2, exc |-> ""]

\* lines 32-40: store the record, extract the entities, check the patterns
insert_transaction(kb, tx_hash, tx_data) ==
  LET kb1 == [kb EXCEPT !.transaction_store = DictSet(@, tx_hash, tx_data)]
      e == extract_entities(kb1.entity_store, tx_data)
      kb2 == [kb1 EXCEPT !.entity_store = e.es]
      p == detect_patterns(kb2.pattern_store, tx_hash, tx_data)
      kb3 == [kb2 EXCEPT !.pattern_store = p.ps]
  IN  IF e.exc # "" THEN [kb |-> kb2, ret |-> None, exc |-> e.exc]
      ELSE IF p.exc # "" THEN [kb |-> kb3, ret |-> None, exc |-> p.exc]
      ELSE [kb |-> kb3, ret |-> True, exc |-> ""]

\* mutant: the duplicate check is dropped, a stored hash is overwritten
add_transaction_overwriting(kb, tx_hash, tx_data) ==
  insert_transaction(kb, tx_hash, tx_data)

\* a transaction store that load_from_file restored as a list or a scalar
\* takes no item under a str key: the membership test or the assignment
\* raises TypeError
add_transaction(kb, tx_hash, tx_data) ==
  IF kb.transaction_store.ty # "dict"
  THEN [kb |-> kb, ret |-> None, exc |-> "TypeError"]
  ELSE IF DictHas(kb.transaction_store, tx_hash)
  THEN [kb |-> kb, ret |-> False, exc |-> ""]
  ELSE insert_transaction(kb, tx_hash, tx_data)

add_entity(kb, address, entity_data) ==
  LET es == kb.entity_store
      es1 == IF DictHas(es, address)
             THEN DictSet(es, address, DictUpdate(DictGet(es, address, None), entity_data))
             ELSE DictSet(es, address, entity_data)
  IN  [kb |-> [kb EXCEPT !.entity_store = es1], ret |-> True, exc |-> ""]

add_relation(kb, entity1, entity2, relation_type, relation_data) ==
  LET relation_key == Join3(entity1, relation_type, entity2)
      rs == kb.relation_store
      rs1 == IF DictHas(rs, relation_key)
             THEN DictSet(rs, relation_key,
                          DictUpdate(DictGet(rs, relation_key, None), relation_data))
             ELSE DictSet(rs, relation_key, relation_data)
  IN  [kb |-> [kb EXCEPT !.relation_store = rs1], ret |-> True, exc |-> ""]

get_transaction(kb, tx_hash) ==
  [kb |-> kb, ret |-> DictGet(kb.transaction_store, tx_hash, None), exc |-> ""]

get_entity(kb, address) ==
  [kb |-> kb, ret |-> DictGet(kb.entity_store, address, None), exc |-> ""]

relation_record(parts, rel_data) ==
  PyDict(<<<<K_entity1, parts[1]>>, <<K_entity2, parts[3]>>, <<K_type, parts[2]>>,
           <<K_data, rel_data>>>>)

RECURSIVE relations_from(_, _, _)
relations_from(rs, entity, i) ==
  IF i > Len(rs.v) THEN <<>>
  ELSE LET parts == SplitColon(rs.v[i][1])
           hit == Len(parts) = 3 /\ (parts[1] = entity \/ parts[3] = entity)
       IN  (IF hit THEN <<relation_record(parts, rs.v[i][2])>> ELSE <<>>)
           \o relations_from(rs, entity, i + 1)

get_relations(kb, entity) ==
  [kb |-> kb, ret |-> PyList(relations_from(kb.relation_store, entity, 1)), exc |-> ""]

-----------------------------------------------------------------------------
(* Fund-flow tracer *)

\* list.sort(key=timestamp, reverse=True): descending, equal keys keep their order
RECURSIVE InsertByTimestamp(_, _)
InsertByTimestamp(sorted, item) ==
  IF sorted = <<>> THEN <<item>>
  ELSE IF BigGt(DictGet(item[2], K_timestamp, Num(0)).v,
                DictGet(sorted[1][2], K_timestamp, Num(0)).v)
       THEN <<item>> \o sorted
       ELSE <<sorted[1]>> \o InsertByTimestamp(Tail(sorted), item)

RECURSIVE SortByTimestampDesc(_, _, _)
SortByTimestampDesc(items, i, acc) ==
  IF i > Len(items) THEN acc
  ELSE SortByTimestampDesc(items, i + 1, InsertByTimestamp(acc, items[i]))

\* the stored (tx_hash, tx_data) pairs sent by address, in store order
RECURSIVE outgoing_from(_, _, _)
outgoing_from(ts, address, i) ==
  IF i > Len(ts.v) THEN <<>>
  ELSE (IF DictGet(ts.v[i][2], K_from, None) = address THEN <<ts.v[i]>> ELSE <<>>)
       \o outgoing_from(ts, address, i + 1)

sorted_outgoing(ts, address) == SortByTimestampDesc(outgoing_from(ts, address, 1), 1, <<>>)

hop_record(tx_hash, tx_data, address, to_address) ==
  PyDict(<<<<K_tx_hash, tx_hash>>, <<K_from, address>>, <<K_to, to_address>>,
           <<K_value, DictGet(tx_data, K_value, Num(0))>>,
           <<K_timestamp, DictGet(tx_data, K_timestamp, Num(0))>>>>)

\* _trace_fund_flow: paths and visited are shared by the whole search,
\* current_path is restored by the pop after each recursive call.  expanded
\* is the log of the addresses that reached line 115 (visited.add) and had
\* their outgoing transfers collected, in the order they did.
RECURSIVE trace_fund_flow(_, _, _, _, _, _, _)
RECURSIVE trace_outgoing(_, _, _, _, _, _, _, _, _)

\* mutant: the depth guard is off by one (depth < 0)
trace_fund_flow_one_deeper(ts, address, current_path, paths, visited, expanded, depth) ==
  IF depth < 0 \/ address \in visited
  THEN [paths |-> paths, visited |-> visited, expanded |-> expanded]
  ELSE trace_outgoing(ts, address, sorted_outgoing(ts, address), 1, current_path,
                      paths, visited \cup {address}, Append(expanded, address), depth)

\* mutant: the depth guard tests depth == 0, a negative depth passes
trace_fund_flow_until_zero(ts, address, current_path, paths, visited, expanded, depth) ==
  IF depth = 0 \/ address \in visited
  THEN [paths |-> paths, visited |-> visited, expanded |-> expanded]
  ELSE trace_outgoing(ts, address, sorted_outgoing(ts, address), 1, current_path,
                      paths, visited \cup {address}, Append(expanded, address), depth)

\* mutant: the `address in visited` test is dropped
trace_fund_flow_revisiting(ts, address, current_path, paths, visited, expanded, depth) ==
  IF depth <= 0
  THEN [paths |-> paths, visited |-> visited, expanded |-> expanded]
  ELSE trace_outgoing(ts, address, sorted_outgoing(ts, address), 1, current_path,
                      paths, visited \cup {address}, Append(expanded, address), depth)

trace_fund_flow(ts, address, current_path, paths, visited, expanded, depth) ==
  IF depth <= 0 \/ address \in visited
  THEN [paths |-> paths, visited |-> visited, expanded |-> expanded]
  ELSE trace_outgoing(ts, address, sorted_outgoing(ts, address), 1, current_path,
                      paths, visited \cup {address}, Append(expanded, address), depth)

\* mutant: the backtracking pop is dropped, the next sibling starts from the
\* path that still holds the hop
trace_outgoing_without_pop(ts, address, outgoing, i, current_path, paths, visited, expanded, depth) ==
  IF i > Len(outgoing) THEN [paths |-> paths, visited |-> visited, expanded |-> expanded]
  ELSE LET to_address == DictGet(outgoing[i][2], K_to, None)
           pushed == Append(current_path,
                            hop_record(outgoing[i][1], outgoing[i][2], address, to_address))
           paths1 == IF depth = 1 \/ to_address \in visited
                     THEN Append(paths, PyList(pushed)) ELSE paths
           r == trace_fund_flow(ts, to_address, pushed, paths1, visited, expanded, depth - 1)
       IN  IF Truthy(to_address)
           THEN trace_outgoing(ts, address, outgoing, i + 1, pushed,
                               r.paths, r.visited, r.expanded, depth)
           ELSE trace_outgoing(ts, address, outgoing, i + 1, current_path,
                               paths, visited, expanded, depth)

trace_outgoing(ts, address, outgoing, i, current_path, paths, visited, expanded, depth) ==
  IF i > Len(outgoing) THEN [paths |-> paths, visited |-> visited, expanded |-> expanded]
  ELSE LET to_address == DictGet(outgoing[i][2], K_to, None)
           pushed == Append(current_path,
                            hop_record(outgoing[i][1], outgoing[i][2], address, to_address))
           paths1 == IF depth = 1 \/ to_address \in visited
                     THEN Append(paths, PyList(pushed)) ELSE paths
           r == trace_fund_flow(ts, to_address, pushed, paths1, visited, expanded, depth - 1)
       IN  IF Truthy(to_address)
           THEN trace_outgoing(ts, address, outgoing, i + 1, current_path,
                               r.paths, r.visited, r.expanded, depth)
           ELSE trace_outgoing(ts, address, outgoing, i + 1, current_path,
                               paths, visited, expanded, depth)

\* the search query_fund_flow starts: empty path list, empty visited set
trace_from(ts, source_address, depth) ==
  trace_fund_flow(ts, source_address, <<>>, <<>>, {}, <<>>, depth)

query_fund_flow(kb, source_address, depth) ==
  [kb |-> kb,
   ret |-> PyList(trace_from(kb.transaction_store, source_address, depth).paths),
   exc |-> ""]

-----------------------------------------------------------------------------
(* Suspicious-pattern detector *)

HourSeconds == 3600

\* mutant: windows of one day, timestamp - (timestamp % 86400)
time_window_of_one_day(timestamp) ==
  LET t == LimbsNat(timestamp.v) IN Num(t - (t % (24 * HourSeconds)))

\* timestamp - (timestamp % 3600)
time_window(timestamp) ==
  LET t == LimbsNat(timestamp.v) IN Num(t - (t % HourSeconds))

\* str(x) inside an f-string
Format(x) ==
  CASE x.ty = "str" -> x
    [] x.ty = "int" -> PyStr(IntToStr(x))
    [] OTHER -> PyStr(<<"N", "o", "n", "e">>)

\* groups[key].append(item), the group created when the key is new
GroupAppend(groups, key, item) ==
  DictSet(groups, key, PyList(Append(DictGet(groups, key, PyList(<<>>)).v, item)))

\* the grouping loop of the splitting (field = "from") and merging
\* (field = "to") detectors
RECURSIVE group_by_endpoint(_, _, _, _)
group_by_endpoint(ts, field, i, groups) ==
  IF i > Len(ts.v) THEN groups
  ELSE LET addr == DictGet(ts.v[i][2], field, None)
           key == Join2(Format(addr),
                        Format(time_window(DictGet(ts.v[i][2], K_timestamp, Num(0)))))
       IN  group_by_endpoint(ts, field, i + 1,
                             IF Truthy(addr) THEN GroupAppend(groups, key, ts.v[i]) ELSE groups)

\* set(tx_data.get(field) for _, tx_data in txs if tx_data.get(field))
endpoint_set(txs, field) ==
  {DictGet(txs[j][2], field, None) :
     j \in {k \in 1..Len(txs) : Truthy(DictGet(txs[k][2], field, None))}}

group_hashes(txs) == PyList([j \in 1..Len(txs) |-> txs[j][1]])

MinGroupTransactions == 5
MinDistinctCounterparties == 3

splitting_finding(key, txs) ==
  PyDict(<<<<K_type, S_fund_splitting>>,
           <<K_from_address, SplitColon(key)[1]>>,
           <<K_recipient_count, Num(Cardinality(endpoint_set(txs, K_to)))>>,
           <<K_transaction_count, Num(Len(txs))>>,
           <<K_transactions, group_hashes(txs)>>>>)

merging_finding(key, txs) ==
  PyDict(<<<<K_type, S_fund_merging>>,
           <<K_to_address, SplitColon(key)[1]>>,
           <<K_sender_count, Num(Cardinality(endpoint_set(txs, K_from)))>>,
           <<K_transaction_count, Num(Len(txs))>>,
           <<K_transactions, group_hashes(txs)>>>>)

\* mutant: more than five transactions are asked for
group_qualifies_strict(txs, other) ==
  /\ Len(txs) > MinGroupTransactions
  /\ Cardinality(endpoint_set(txs, other)) >= MinDistinctCounterparties

group_qualifies(txs, other) ==
  /\ Len(txs) >= MinGroupTransactions
  /\ Cardinality(endpoint_set(txs, other)) >= MinDistinctCounterparties

RECURSIVE splitting_findings(_, _)
splitting_findings(groups, i) ==
  IF i > Len(groups.v) THEN <<>>
  ELSE (IF group_qualifies(groups.v[i][2].v, K_to)
        THEN <<splitting_finding(groups.v[i][1], groups.v[i][2].v)>> ELSE <<>>)
       \o splitting_findings(groups, i + 1)

RECURSIVE merging_findings(_, _)
merging_findings(groups, i) ==
  IF i > Len(groups.v) THEN <<>>
  ELSE (IF group_qualifies(groups.v[i][2].v, K_from)
        THEN <<merging_finding(groups.v[i][1], groups.v[i][2].v)>> ELSE <<>>)
       \o merging_findings(groups, i + 1)

detect_splitting_patterns(ts) ==
  splitting_findings(group_by_endpoint(ts, K_from, 1, EmptyDict), 1)

\* mutant: the groups are keyed by sender, as in the splitting detector
detect_merging_patterns_by_sender(ts) ==
  merging_findings(group_by_endpoint(ts, K_from, 1, EmptyDict), 1)

detect_merging_patterns(ts) ==
  merging_findings(group_by_endpoint(ts, K_to, 1, EmptyDict), 1)

\* graph[from_addr][to_addr].append(tx_hash) over the stored transactions
RECURSIVE build_graph(_, _, _)
build_graph(ts, i, graph) ==
  IF i > Len(ts.v) THEN graph
  ELSE LET from_addr == DictGet(ts.v[i][2], K_from, None)
           to_addr == DictGet(ts.v[i][2], K_to, None)
           row == DictGet(graph, from_addr, EmptyDict)
       IN  build_graph(ts, i + 1,
                       IF Truthy(from_addr) /\ Truthy(to_addr)
                       THEN DictSet(graph, from_addr, GroupAppend(row, to_addr, ts.v[i][1]))
                       ELSE graph)

\* path.index(x)
IndexOf(path, x) == CHOOSE i \in 1..Len(path) : path[i] = x /\ \A j \in 1..(i - 1) : path[j] # x

InPath(path, x) == \E i \in 1..Len(path) : path[i] = x

\* _find_cycle: visited and path are shared by the whole search from one start
RECURSIVE find_cycle(_, _, _, _)
RECURSIVE find_cycle_among(_, _, _, _, _)
find_cycle(graph, current, visited, path) ==
  LET visited1 == visited \cup {current}
      path1 == Append(path, current)
      r == find_cycle_among(graph, DictKeys(DictGet(graph, current, EmptyDict)), 1,
                            visited1, path1)
  IN  IF r.result # <<>> THEN r
      ELSE [result |-> <<>>, visited |-> r.visited, path |-> path]

find_cycle_among(graph, neighbors, i, visited, path) ==
  IF i > Len(neighbors) THEN [result |-> <<>>, visited |-> visited, path |-> path]
  ELSE IF neighbors[i] \notin visited
       THEN LET r == find_cycle(graph, neighbors[i], visited, path)
            IN  IF r.result # <<>> THEN r
                ELSE find_cycle_among(graph, neighbors, i + 1, r.visited, r.path)
       ELSE IF InPath(path, neighbors[i])
            THEN [result |-> SubSeq(path, IndexOf(path, neighbors[i]), Len(path)),
                  visited |-> visited, path |-> path]
            ELSE find_cycle_among(graph, neighbors, i + 1, visited, path)

\* mutant: the edge from the last address back to the first is left out
RECURSIVE get_cycle_transactions_open(_, _, _)
get_cycle_transactions_open(graph, cycle, i) ==
  IF i >= Len(cycle) THEN <<>>
  ELSE LET row == DictGet(graph, cycle[i], EmptyDict)
       IN  (IF DictHas(graph, cycle[i]) /\ DictHas(row, cycle[i + 1])
            THEN DictGet(row, cycle[i + 1], PyList(<<>>)).v ELSE <<>>)
           \o get_cycle_transactions_open(graph, cycle, i + 1)

RECURSIVE get_cycle_transactions(_, _, _)
get_cycle_transactions(graph, cycle, i) ==
  IF i > Len(cycle) THEN <<>>
  ELSE LET from_addr == cycle[i]
           to_addr == cycle[(i % Len(cycle)) + 1]
           row == DictGet(graph, from_addr, EmptyDict)
       IN  (IF DictHas(graph, from_addr) /\ DictHas(row, to_addr)
            THEN DictGet(row, to_addr, PyList(<<>>)).v ELSE <<>>)
           \o get_cycle_transactions(graph, cycle, i + 1)

cyclic_finding(graph, cycle) ==
  PyDict(<<<<K_type, S_cyclic_transfers>>,
           <<K_addresses, PyList(cycle)>>,
           <<K_transactions, PyList(get_cycle_transactions(graph, cycle, 1))>>>>)

\* mutant: the loop over the start addresses ends at the first cycle found
RECURSIVE cyclic_findings_first_only(_, _, _)
cyclic_findings_first_only(graph, starts, i) ==
  IF i > Len(starts) THEN <<>>
  ELSE LET cycle == find_cycle(graph, starts[i], {}, <<>>).result
       IN  IF cycle # <<>> THEN <<cyclic_finding(graph, cycle)>>
           ELSE cyclic_findings_first_only(graph, starts, i + 1)

\* the loop over graph.keys(): a fresh visited set and path per start address
RECURSIVE cyclic_findings(_, _, _)
cyclic_findings(graph, starts, i) ==
  IF i > Len(starts) THEN <<>>
  ELSE LET cycle == find_cycle(graph, starts[i], {}, <<>>).result
       IN  (IF cycle # <<>> THEN <<cyclic_finding(graph, cycle)>> ELSE <<>>)
           \o cyclic_findings(graph, starts, i + 1)

detect_cyclic_transfers(ts) ==
  LET graph == build_graph(ts, 1, EmptyDict)
  IN  cyclic_findings(graph, DictKeys(graph), 1)

\* mutant: the findings are also written to the pattern store, under their
\* position in the list
RECURSIVE persist_findings(_, _, _)
persist_findings(ps, findings, i) ==
  IF i > Len(findings) THEN ps
  ELSE persist_findings(DictSet(ps, Join2(DictGet(findings[i], K_type, None), Format(Num(i))),
                                findings[i]),
                        findings, i + 1)

detect_suspicious_patterns_persisting(kb) ==
  LET suspicious == detect_splitting_patterns(kb.transaction_store)
                    \o detect_merging_patterns(kb.transaction_store)
                    \o detect_cyclic_transfers(kb.transaction_store)
  IN  [kb |-> [kb EXCEPT !.pattern_store = persist_findings(@, suspicious, 1)],
       ret |-> PyList(suspicious),
       exc |-> ""]

detect_suspicious_patterns(kb) ==
  [kb |-> kb,
   ret |-> PyList(detect_splitting_patterns(kb.transaction_store)
                  \o detect_merging_patterns(kb.transaction_store)
                  \o detect_cyclic_transfers(kb.transaction_store)),
   exc |-> ""]

-----------------------------------------------------------------------------
(* Snapshot serializer.  A JSON value is a tagged record [j, v]: an object *)
(* holds <<key characters, value>> members in document order.             *)

JNull == [j |-> "null", v |-> <<>>]
JBool(b) == [j |-> "bool", v |-> b]
JString(cs) == [j |-> "string", v |-> cs]
JNumber(ls) == [j |-> "number", v |-> ls]
JArray(xs) == [j |-> "array", v |-> xs]
JObject(ms) == [j |-> "object", v |-> ms]

\* the member name json.dump writes for a dict key: str keys as they are,
\* the other basic keys as their JSON text
json_key(k) ==
  CASE k.ty = "str" -> k.v
    [] k.ty = "int" -> IntToStr(k)
    [] k.ty = "bool" -> (IF k.v THEN <<"t", "r", "u", "e">> ELSE <<"f", "a", "l", "s", "e">>)
    [] OTHER -> <<"n", "u", "l", "l">>

\* json.dump: the document of a Python value
RECURSIVE json_dump(_)
json_dump(x) ==
  CASE x.ty = "none" -> JNull
    [] x.ty = "bool" -> JBool(x.v)
    [] x.ty = "str" -> JString(x.v)
    [] x.ty = "int" -> JNumber(x.v)
    [] x.ty = "list" -> JArray([i \in 1..Len(x.v) |-> json_dump(x.v[i])])
    [] OTHER -> JObject([i \in 1..Len(x.v) |-> <<json_key(x.v[i][1]), json_dump(x.v[i][2])>>])

\* json.load: the Python value of a document; a repeated member name keeps
\* its first position and its last value
RECURSIVE json_load(_)
RECURSIVE json_load_members(_, _, _)
json_load(doc) ==
  CASE doc.j = "null" -> None
    [] doc.j = "bool" -> (IF doc.v THEN True ELSE False)
    [] doc.j = "string" -> PyStr(doc.v)
    [] doc.j = "number" -> PyInt(doc.v)
    [] doc.j = "array" -> PyList([i \in 1..Len(doc.v) |-> json_load(doc.v[i])])
    [] OTHER -> json_load_members(doc.v, 1, EmptyDict)

json_load_members(ms, i, d) ==
  IF i > Len(ms) THEN d
  ELSE json_load_members(ms, i + 1, DictSet(d, PyStr(ms[i][1]), json_load(ms[i][2])))

\* what the file at filepath holds: nothing (None), a document, or the
\* prefix a failed write left behind
FileOf(doc) == [ty |-> "file", v |-> doc]
TruncatedFile == [ty |-> "truncated", v |-> <<>>]

snapshot_data(kb) ==
  PyDict(<<<<K_transactions, kb.transaction_store>>, <<K_entities, kb.entity_store>>,
           <<K_patterns, kb.pattern_store>>, <<K_relations, kb.relation_store>>>>)

\* io is what the file system does: "ok", "open_fails" or "write_fails"
save_to_file(kb, file, io) ==
  CASE io = "ok" -> [kb |-> kb, ret |-> True, exc |-> "", file |-> FileOf(json_dump(snapshot_data(kb)))]
    [] io = "write_fails" -> [kb |-> kb, ret |-> False, exc |-> "", file |-> TruncatedFile]
    [] OTHER -> [kb |-> kb, ret |-> False, exc |-> "", file |-> file]

\* mutant: the patterns are read from a key the document does not have
restore_without_patterns(data) ==
  [transaction_store |-> DictGet(data, K_transactions, EmptyDict),
   entity_store |-> DictGet(data, K_entities, EmptyDict),
   pattern_store |-> DictGet(data, K_type, EmptyDict),
   relation_store |-> DictGet(data, K_relations, EmptyDict)]

\* lines 368-371
restore(data) ==
  [transaction_store |-> DictGet(data, K_transactions, EmptyDict),
   entity_store |-> DictGet(data, K_entities, EmptyDict),
   pattern_store |-> DictGet(data, K_patterns, EmptyDict),
   relation_store |-> DictGet(data, K_relations, EmptyDict)]

\* mutant: the document is merged into the stores instead of replacing them
load_from_file_merging(kb, file, io) ==
  IF io # "ok" \/ file.ty # "file"
  THEN [kb |-> kb, ret |-> False, exc |-> "", file |-> file]
  ELSE LET data == json_load(file.v)
       IN  IF data.ty # "dict"
           THEN [kb |-> kb, ret |-> False, exc |-> "", file |-> file]
           ELSE [kb |-> [transaction_store |->
                           DictUpdate(kb.transaction_store, restore(data).transaction_store),
                         entity_store |->
                           DictUpdate(kb.entity_store, restore(data).entity_store),
                         pattern_store |->
                           DictUpdate(kb.pattern_store, restore(data).pattern_store),
                         relation_store |->
                           DictUpdate(kb.relation_store, restore(data).relation_store)],
                 ret |-> True, exc |-> "", file |-> file]

\* mutant: the stores are emptied before the file is read
load_from_file_clearing(kb, file, io) ==
  IF io # "ok" \/ file.ty # "file"
  THEN [kb |-> EmptyKB, ret |-> False, exc |-> "", file |-> file]
  ELSE LET data == json_load(file.v)
       IN  IF data.ty # "dict"
           THEN [kb |-> EmptyKB, ret |-> False, exc |-> "", file |-> file]
           ELSE [kb |-> restore(data), ret |-> True, exc |-> "", file |-> file]

\* io is what the file system does: "ok" or "open_fails"
load_from_file(kb, file, io) ==
  IF io # "ok" \/ file.ty # "file"
  THEN [kb |-> kb, ret |-> False, exc |-> "", file |-> file]
  ELSE LET data == json_load(file.v)
       IN  IF data.ty # "dict"
           THEN [kb |-> kb, ret |-> False, exc |-> "", file |-> file]
           ELSE [kb |-> restore(data), ret |-> True, exc |-> "", file |-> file]

-----------------------------------------------------------------------------
(* The generalized knowledge graph: KnowledgeGraph over the space of       *)
(* knowledge_graph.py lines 18-53 (hyperon is not importable).  A graph is *)
(* [name, space, entities, relationships, last_updated]; the space is the  *)
(* sequence of the atoms added to it, an atom the tokens of its            *)
(* expression, a property value the JSON document json.dumps writes.       *)
(* last_updated counts the clock readings stored so far.                   *)

K_error == PyStr(<<"e", "r", "r", "o", "r">>)
K_id == PyStr(<<"i", "d">>)
K_properties == PyStr(<<"p", "r", "o", "p", "e", "r", "t", "i", "e", "s">>)
K_relationships == PyStr(<<"r", "e", "l", "a", "t", "i", "o", "n", "s", "h", "i", "p", "s">>)
K_metadata == PyStr(<<"m", "e", "t", "a", "d", "a", "t", "a">>)
K_name == PyStr(<<"n", "a", "m", "e">>)
K_exported_at == PyStr(<<"e", "x", "p", "o", "r", "t", "e", "d", "_", "a", "t">>)
K_entities_count == PyStr(<<"e", "n", "t", "i", "t", "i", "e", "s", "_", "c", "o", "u", "n", "t">>)
K_relationships_count == PyStr(<<"r", "e", "l", "a", "t", "i", "o", "n", "s", "h", "i", "p", "s",
                                 "_", "c", "o", "u", "n", "t">>)
S_blockchain_knowledge == PyStr(<<"b", "l", "o", "c", "k", "c", "h", "a", "i", "n", "_",
                                  "k", "n", "o", "w", "l", "e", "d", "g", "e">>)

\* KnowledgeGraph.__init__
EmptyGraph ==
  [name |-> S_blockchain_knowledge, space |-> <<>>, entities |-> {},
   relationships |-> {}, last_updated |-> 0]

\* metta.parse_atom(expr): the atom of an expression
Atom(kind, args) == [kind |-> kind, args |-> args]

\* SpaceAtom.add_atom: the atom is kept (under the clock reading that is
\* its name) and True returned
space_add_atom(space, atom) == Append(space, atom)

\* SpaceAtom.query: no results, whatever the pattern
space_query(space, pattern) == <<>>

\* one atom per property: (Property <head> name json.dumps(value))
property_atoms(kind, head, properties) ==
  [i \in 1..Len(properties.v) |->
     Atom(kind, head \o <<Format(properties.v[i][1]), json_dump(properties.v[i][2])>>)]

\* `if not properties: properties = {}`
properties_or_empty(properties) == IF Truthy(properties) THEN properties ELSE EmptyDict

\* the properties dict built from the results of a query
RECURSIVE properties_of_results(_, _, _)
properties_of_results(results, i, properties) ==
  IF i > Len(results) THEN properties
  ELSE properties_of_results(results, i + 1,
         DictSet(properties, results[i].prop_name, json_load(results[i].prop_value)))

kg_update_entity(g, entity_type, entity_id, properties) ==
  [g |-> [g EXCEPT !.space = @ \o property_atoms("Property", <<entity_type, entity_id>>,
                                                 properties),
                   !.last_updated = @ + 1],
   ret |-> True, exc |-> ""]

kg_add_entity(g, entity_type, entity_id, properties) ==
  LET props == properties_or_empty(properties)
      entity_key == Join2(Format(entity_type), Format(entity_id))
  IN  IF entity_key \in g.entities
      THEN kg_update_entity(g, entity_type, entity_id, props)
      ELSE [g |-> [g EXCEPT !.space =
                              space_add_atom(@, Atom("Entity", <<entity_type, entity_id>>))
                                \o property_atoms("Property", <<entity_type, entity_id>>, props),
                            !.entities = @ \cup {entity_key},
                            !.last_updated = @ + 1],
            ret |-> True, exc |-> ""]

\* mutant: the relationship is recorded without creating its endpoints
kg_add_relationship_only(g, from_entity, relationship_type, to_entity, properties) ==
  LET props == properties_or_empty(properties)
      from_key == Join2(Format(from_entity[1]), Format(from_entity[2]))
      to_key == Join2(Format(to_entity[1]), Format(to_entity[2]))
      rel_key == Join3(from_key, Format(relationship_type), to_key)
      head == <<from_entity[1], from_entity[2], relationship_type, to_entity[1], to_entity[2]>>
  IN  [g |-> [g EXCEPT !.space = space_add_atom(@, Atom("Relationship", head))
                                   \o property_atoms("RelProperty", head, props),
                       !.relationships = @ \cup {rel_key},
                       !.last_updated = @ + 1],
       ret |-> True, exc |-> ""]

\* from_entity and to_entity are (entity_type, entity_id) pairs
kg_add_relationship(g, from_entity, relationship_type, to_entity, properties) ==
  LET props == properties_or_empty(properties)
      from_key == Join2(Format(from_entity[1]), Format(from_entity[2]))
      to_key == Join2(Format(to_entity[1]), Format(to_entity[2]))
      g1 == IF from_key \notin g.entities
            THEN kg_add_entity(g, from_entity[1], from_entity[2], None).g ELSE g
      g2 == IF to_key \notin g1.entities
            THEN kg_add_entity(g1, to_entity[1], to_entity[2], None).g ELSE g1
      rel_key == Join3(from_key, Format(relationship_type), to_key)
      head == <<from_entity[1], from_entity[2], relationship_type, to_entity[1], to_entity[2]>>
  IN  [g |-> [g2 EXCEPT !.space = space_add_atom(@, Atom("Relationship", head))
                                    \o property_atoms("RelProperty", head, props),
                        !.relationships = @ \cup {rel_key},
                        !.last_updated = @ + 1],
       ret |-> True, exc |-> ""]

\* f"Entity {entity_key} not found"
not_found_message(entity_key) ==
  PyStr(<<"E", "n", "t", "i", "t", "y", " ">> \o entity_key.v
          \o <<" ", "n", "o", "t", " ", "f", "o", "u", "n", "d">>)

kg_query_entity(g, entity_type, entity_id) ==
  LET entity_key == Join2(Format(entity_type), Format(entity_id))
      results == space_query(g.space, Atom("Property", <<entity_type, entity_id>>))
  IN  [g |-> g, exc |-> "",
       ret |-> IF entity_key \notin g.entities
               THEN PyDict(<<<<K_error, not_found_message(entity_key)>>>>)
               ELSE PyDict(<<<<K_type, entity_type>>, <<K_id, entity_id>>,
                             <<K_properties, properties_of_results(results, 1, EmptyDict)>>>>)]

get_relationship_properties(g, from_type, from_id, rel_type, to_type, to_id) ==
  properties_of_results(
    space_query(g.space, Atom("RelProperty", <<from_type, from_id, rel_type, to_type, to_id>>)),
    1, EmptyDict)

\* s.split(":", 1): the text before the first colon and the text after it,
\* or the whole text when it has no colon
SplitOnce(s) ==
  LET at == {i \in 1..Len(s.v) : s.v[i] = ":"}
      first == CHOOSE i \in at : \A j \in at : i <= j
  IN  IF at = {} THEN <<s>>
      ELSE <<PyStr(SubSeq(s.v, 1, first - 1)), PyStr(SubSeq(s.v, first + 1, Len(s.v)))>>

\* the loop over self.entities, in the order the set is iterated
exported_entities(g, order) ==
  [i \in 1..Len(order) |->
     LET pieces == SplitOnce(order[i])
     IN  kg_query_entity(g, pieces[1], pieces[2]).ret]

\* one relationship of the loop over self.relationships: the unpacking of
\* rel_parts[0].split(":", 1) and rel_parts[3].split(":", 1) into two names
\* raises ValueError unless the split gives two pieces
exported_relationship(g, rel_key) ==
  LET rel_parts == SplitColon(rel_key)
      from == SplitOnce(rel_parts[1])
      to == SplitOnce(rel_parts[4])
  IN  IF Len(rel_parts) < 5 THEN [exc |-> "", rels |-> <<>>]
      ELSE IF Len(from) # 2 \/ Len(to) # 2 THEN [exc |-> "ValueError", rels |-> <<>>]
      ELSE [exc |-> "",
            rels |-> <<PyDict(<<<<K_from, PyDict(<<<<K_type, from[1]>>, <<K_id, from[2]>>>>)>>,
                                <<K_type, rel_parts[3]>>,
                                <<K_to, PyDict(<<<<K_type, to[1]>>, <<K_id, to[2]>>>>)>>,
                                <<K_properties,
                                  get_relationship_properties(g, from[1], from[2], rel_parts[3],
                                                              to[1], to[2])>>>>)>>]

RECURSIVE exported_relationships(_, _, _, _)
exported_relationships(g, order, i, rels) ==
  IF i > Len(order) THEN [exc |-> "", rels |-> rels]
  ELSE LET r == exported_relationship(g, order[i])
       IN  IF r.exc # "" THEN [exc |-> r.exc, rels |-> rels]
           ELSE exported_relationships(g, order, i + 1, rels \o r.rels)

\* entity_order and relationship_order are the orders in which the two sets
\* are iterated; the document returned is the one json.dumps writes
kg_export_to_json(g, entity_order, relationship_order) ==
  LET entities == exported_entities(g, entity_order)
      rels == exported_relationships(g, relationship_order, 1, <<>>)
      graph_data ==
        PyDict(<<<<K_metadata,
                   PyDict(<<<<K_name, g.name>>,
                            <<K_exported_at, PyStr(NatDigits(g.last_updated + 1))>>,
                            <<K_entities_count, Num(Len(entities))>>,
                            <<K_relationships_count, Num(Len(rels.rels))>>>>)>>,
                 <<K_entities, PyList(entities)>>,
                 <<K_relationships, PyList(rels.rels)>>>>)
  IN  IF rels.exc # "" THEN [g |-> g, ret |-> None, exc |-> rels.exc]
      ELSE [g |-> g, ret |-> json_dump(graph_data), exc |-> ""]

\* a text json.loads cannot decode
Undecodable == [j |-> "undecodable", v |-> <<>>]

\* x.get(k, default) inside the try block: AttributeError unless x is a dict
GetOrRaise(x, k, default) ==
  IF x.ty = "dict" THEN [exc |-> "", val |-> DictGet(x, k, default)]
  ELSE [exc |-> "AttributeError", val |-> None]

\* the loop over data.get("entities", [])
RECURSIVE import_entities(_, _, _)
import_entities(g, entities, i) ==
  IF i > Len(entities) THEN [g |-> g, exc |-> ""]
  ELSE LET entity == entities[i]
           entity_type == DictGet(entity, K_type, None)
           entity_id == DictGet(entity, K_id, None)
           properties == DictGet(entity, K_properties, EmptyDict)
       IN  IF entity.ty # "dict" THEN [g |-> g, exc |-> "AttributeError"]
           ELSE IF Truthy(entity_type) /\ Truthy(entity_id)
           THEN IF Truthy(properties) /\ properties.ty # "dict"
                THEN [g |-> g, exc |-> "AttributeError"]
                ELSE import_entities(kg_add_entity(g, entity_type, entity_id, properties).g,
                                     entities, i + 1)
           ELSE import_entities(g, entities, i + 1)

\* the loop over data.get("relationships", [])
RECURSIVE import_relationships(_, _, _)
import_relationships(g, relationships, i) ==
  IF i > Len(relationships) THEN [g |-> g, exc |-> ""]
  ELSE LET relationship == relationships[i]
           from == GetOrRaise(relationship, K_from, EmptyDict)
           to == GetOrRaise(relationship, K_to, EmptyDict)
           from_type == GetOrRaise(from.val, K_type, None)
           from_id == GetOrRaise(from.val, K_id, None)
           to_type == GetOrRaise(to.val, K_type, None)
           to_id == GetOrRaise(to.val, K_id, None)
           rel_type == DictGet(relationship, K_type, None)
           properties == DictGet(relationship, K_properties, EmptyDict)
       IN  IF \E x \in {from, to, from_type, from_id, to_type, to_id} : x.exc # ""
           THEN [g |-> g, exc |-> "AttributeError"]
           ELSE IF /\ Truthy(from_type.val) /\ Truthy(from_id.val) /\ Truthy(rel_type)
                   /\ Truthy(to_type.val) /\ Truthy(to_id.val)
           THEN IF Truthy(properties) /\ properties.ty # "dict"
                THEN [g |-> g, exc |-> "AttributeError"]
                ELSE import_relationships(
                       kg_add_relationship(g, <<from_type.val, from_id.val>>, rel_type,
                                           <<to_type.val, to_id.val>>, properties).g,
                       relationships, i + 1)
           ELSE import_relationships(g, relationships, i + 1)

\* an exception inside the try block is logged and False returned; what the
\* loops added before it stays in the graph
kg_import_from_json(g, json_data) ==
  LET data == json_load(json_data)
      entities == DictGet(data, K_entities, PyList(<<>>))
      relationships == DictGet(data, K_relationships, PyList(<<>>))
      r1 == import_entities(g, entities.v, 1)
      r2 == import_relationships(r1.g, relationships.v, 1)
  IN  IF json_data = Undecodable \/ data.ty # "dict" THEN [g |-> g, ret |-> False, exc |-> ""]
      ELSE IF entities.ty # "list" THEN [g |-> g, ret |-> False, exc |-> ""]
      ELSE IF r1.exc # "" THEN [g |-> r1.g, ret |-> False, exc |-> ""]
      ELSE IF relationships.ty # "list" THEN [g |-> r1.g, ret |-> False, exc |-> ""]
      ELSE IF r2.exc # "" THEN [g |-> r2.g, ret |-> False, exc |-> ""]
      ELSE [g |-> r2.g, ret |-> True, exc |-> ""]

-----------------------------------------------------------------------------
Init ==
  /\ transaction_store = EmptyDict
  /\ entity_store = EmptyDict
  /\ pattern_store = EmptyDict
  /\ relation_store = EmptyDict
  /\ disk = None
  /\ knowledge_graph = EmptyGraph
  /\ last = [op |-> "init", args |-> <<>>, ret |-> None, exc |-> ""]


-----------------------------------------------------------------------------
(* The calls a client makes.  Every action is one call of a public         *)
(* operation; last records the call, what it returned and what it raised.  *)

Called(op, args, r) ==
  /\ transaction_store' = r.kb.transaction_store
  /\ entity_store' = r.kb.entity_store
  /\ pattern_store' = r.kb.pattern_store
  /\ relation_store' = r.kb.relation_store
  /\ last' = [op |-> op, args |-> args, ret |-> r.ret, exc |-> r.exc]
  /\ UNCHANGED knowledge_graph

\* the call is made while the store holds fewer than max transactions, or
\* repeats a stored hash
AddTransaction(tx_hash, tx_data, max) ==
  /\ DictHas(transaction_store, tx_hash) \/ Len(transaction_store.v) < max
  /\ Called("add_transaction", <<tx_hash, tx_data>>, add_transaction(KB, tx_hash, tx_data))
  /\ UNCHANGED disk

AddEntity(address, entity_data) ==
  /\ Called("add_entity", <<address, entity_data>>, add_entity(KB, address, entity_data))
  /\ UNCHANGED disk

AddRelation(entity1, entity2, relation_type, relation_data) ==
  /\ Called("add_relation", <<entity1, entity2, relation_type, relation_data>>,
            add_relation(KB, entity1, entity2, relation_type, relation_data))
  /\ UNCHANGED disk

GetTransaction(tx_hash) ==
  /\ Called("get_transaction", <<tx_hash>>, get_transaction(KB, tx_hash))
  /\ UNCHANGED disk

GetEntity(address) ==
  /\ Called("get_entity", <<address>>, get_entity(KB, address))
  /\ UNCHANGED disk

GetRelations(entity) ==
  /\ Called("get_relations", <<entity>>, get_relations(KB, entity))
  /\ UNCHANGED disk

QueryFundFlow(source_address, depth) ==
  /\ Called("query_fund_flow", <<source_address, depth>>,
            query_fund_flow(KB, source_address, depth))
  /\ UNCHANGED disk

DetectSuspiciousPatterns ==
  /\ Called("detect_suspicious_patterns", <<>>, detect_suspicious_patterns(KB))
  /\ UNCHANGED disk

SaveToFile(io) ==
  LET r == save_to_file(KB, disk, io)
  IN  /\ Called("save_to_file", <<io>>, r)
      /\ disk' = r.file

LoadFromFile(io) ==
  LET r == load_from_file(KB, disk, io)
  IN  /\ Called("load_from_file", <<io>>, r)
      /\ disk' = r.file

\* a call of a method of the knowledge graph
GraphCalled(op, args, r) ==
  /\ knowledge_graph' = r.g
  /\ last' = [op |-> op, args |-> args, ret |-> r.ret, exc |-> r.exc]
  /\ UNCHANGED <<transaction_store, entity_store, pattern_store, relation_store, disk>>

GraphAddEntity(entity_type, entity_id, properties) ==
  GraphCalled("KnowledgeGraph.add_entity", <<entity_type, entity_id, properties>>,
              kg_add_entity(knowledge_graph, entity_type, entity_id, properties))

GraphAddRelationship(from_entity, relationship_type, to_entity, properties) ==
  GraphCalled("KnowledgeGraph.add_relationship",
              <<from_entity, relationship_type, to_entity, properties>>,
              kg_add_relationship(knowledge_graph, from_entity, relationship_type, to_entity,
                                  properties))

GraphQueryEntity(entity_type, entity_id) ==
  GraphCalled("KnowledgeGraph.query_entity", <<entity_type, entity_id>>,
              kg_query_entity(knowledge_graph, entity_type, entity_id))

\* the sequences that enumerate a set, each element once
Orders(S) ==
  {order \in [1..Cardinality(S) -> S] :
     \A i, j \in 1..Cardinality(S) : order[i] = order[j] => i = j}

\* the two sets are iterated in an order the caller does not control
GraphExportToJson ==
  \E entity_order \in Orders(knowledge_graph.entities),
     relationship_order \in Orders(knowledge_graph.relationships) :
    GraphCalled("KnowledgeGraph.export_to_json", <<>>,
                kg_export_to_json(knowledge_graph, entity_order, relationship_order))

-----------------------------------------------------------------------------
(* Inputs *)

\* a key the caller leaves out of a dict it builds
Absent == [ty |-> "absent", v |-> <<>>]

RECURSIVE PresentPairs(_)
PresentPairs(ps) ==
  IF ps = <<>> THEN <<>>
  ELSE (IF ps[1][2] = Absent THEN <<>> ELSE <<ps[1]>>) \o PresentPairs(Tail(ps))

\* a transaction dict with the given fields
Tx(from, to, value, timestamp, hash, input) ==
  PyDict(PresentPairs(<<<<K_hash, hash>>, <<K_from, from>>, <<K_to, to>>,
                        <<K_value, value>>, <<K_timestamp, timestamp>>,
                        <<K_input, input>>>>))

AddrA == PyStr(<<"A">>)
AddrB == PyStr(<<"B">>)
AddrC == PyStr(<<"C">>)
AddrD == PyStr(<<"D">>)
AddrE == PyStr(<<"E">>)
AddrF == PyStr(<<"F">>)
AddrG == PyStr(<<"G">>)
AddrH == PyStr(<<"H">>)
AddrI == PyStr(<<"I">>)
AddrJ == PyStr(<<"J">>)
Hash1 == PyStr(<<"h", "1">>)
Hash2 == PyStr(<<"h", "2">>)
Hash3 == PyStr(<<"h", "3">>)
Hash4 == PyStr(<<"h", "4">>)
Hash5 == PyStr(<<"h", "5">>)
Hash6 == PyStr(<<"h", "6">>)
Hash7 == PyStr(<<"h", "7">>)
HashSeq == <<Hash1, Hash2, Hash3, Hash4, Hash5, Hash6, Hash7>>

\* 100 * 10**18 - 1, 100 * 10**18 and 100 * 10**18 + 1, as ints and as the
\* hexadecimal strings an RPC response carries
IntBelow == PyInt(<<999999, 999999, 999999, 99>>)
IntAt == PyInt(<<0, 0, 0, 100>>)
IntAbove == PyInt(<<1, 0, 0, 100>>)
HexBelow == PyStr(<<"0", "x", "5", "6", "b", "c", "7", "5", "e", "2", "d", "6", "3",
                   "0", "f", "f", "f", "f", "f">>)
HexAt == PyStr(<<"0", "x", "5", "6", "b", "c", "7", "5", "e", "2", "d", "6", "3",
                "1", "0", "0", "0", "0", "0">>)
HexAbove == PyStr(<<"0", "x", "5", "6", "B", "C", "7", "5", "E", "2", "D", "6", "3",
                   "1", "0", "0", "0", "0", "1">>)
NotHex == PyStr(<<"1", "e", "2", "1", "w", "e", "i">>)

-----------------------------------------------------------------------------
(* SpecIngest: a client that only inserts transactions *)

MaxIngest == 2

IngestHashes == {Hash1, Hash2}

IngestTx ==
  {Tx(AddrA, to, value, Absent, Absent, Absent) :
     to \in {AddrB, Absent},
     value \in {Absent, IntBelow, IntAt, IntAbove, HexBelow, HexAt, HexAbove, NotHex}}

NextIngest ==
  \E tx_hash \in IngestHashes, tx_data \in IngestTx :
    AddTransaction(tx_hash, tx_data, MaxIngest)

SpecIngest == Init /\ [][NextIngest]_vars


\* the pattern store holds a large-transfer pattern for tx_hash, under its key
HasLargeTransfer(tx_hash) ==
  /\ DictHas(pattern_store, Join2(S_large_transfer, tx_hash))
  /\ LET pat == DictGet(pattern_store, Join2(S_large_transfer, tx_hash), None)
     IN  /\ DictGet(pat, K_type, None) = S_large_transfer
         /\ DictGet(pat, K_tx_hash, None) = tx_hash

NoLargeTransfer(tx_hash) ==
  \A i \in 1..Len(pattern_store.v) :
    /\ pattern_store.v[i][1] # Join2(S_large_transfer, tx_hash)
    /\ ~(/\ DictGet(pattern_store.v[i][2], K_type, None) = S_large_transfer
         /\ DictGet(pattern_store.v[i][2], K_tx_hash, None) = tx_hash)

StoredValue(tx_hash) == DictGet(DictGet(transaction_store, tx_hash, EmptyDict), K_value, Absent)

\* C1: add_transaction of a hash that is already stored returns false and
\* leaves the transaction store (the stored fields included), the entity
\* store, the pattern store and the relation store exactly as they were,
\* whatever fields the call carries.
C1_DuplicateAddIsNoOp ==
  [][(last'.op = "add_transaction" /\ DictHas(transaction_store, last'.args[1]))
       => /\ last'.ret = False
          /\ last'.exc = ""
          /\ transaction_store' = transaction_store
          /\ entity_store' = entity_store
          /\ pattern_store' = pattern_store
          /\ relation_store' = relation_store]_vars

\* a rejected re-add whose fields differ from the stored ones, one of them
\* above the large-transfer threshold and the other not
C1_Witness ==
  /\ last.op = "add_transaction"
  /\ last.ret = False
  /\ DictGet(transaction_store, last.args[1], None) # last.args[2]
  /\ DictGet(last.args[2], K_value, Absent) = IntAbove
  /\ StoredValue(last.args[1]) = IntAt
  /\ DictGet(last.args[2], K_to, Absent) = Absent
  /\ DictGet(DictGet(transaction_store, last.args[1], None), K_to, Absent) = AddrB

\* C2: after any sequence of add_transaction calls on an empty store, a
\* large-transfer pattern keyed by hash h exists if and only if the
\* transaction inserted under h has a value strictly greater than
\* 100 * 10^18 (given as an int or as a hexadecimal string).
C2_LargeTransferIffAbove ==
  \A tx_hash \in IngestHashes :
    IF DictHas(transaction_store, tx_hash) /\ StoredValue(tx_hash) \in {IntAbove, HexAbove}
    THEN HasLargeTransfer(tx_hash)
    ELSE NoLargeTransfer(tx_hash)

\* one hash stored at exactly the threshold with no pattern, the other one
\* unit above it, as a hexadecimal string, with its pattern
C2_Witness ==
  /\ StoredValue(Hash1) = IntAt
  /\ NoLargeTransfer(Hash1)
  /\ StoredValue(Hash2) = HexAbove
  /\ HasLargeTransfer(Hash2)
  /\ DictGet(DictGet(pattern_store, Join2(S_large_transfer, Hash2), None), K_value, None) = IntAbove


-----------------------------------------------------------------------------
(* SpecCycle: transfers among three addresses, then detection *)

MaxCycleTx == 3

\* the hash a caller gives the next new transaction
NextHash == HashSeq[Len(transaction_store.v) + 1]

CycleAddrs == {AddrA, AddrB, AddrC}

NextCycle ==
  \/ \E from \in CycleAddrs, to \in CycleAddrs :
       /\ Len(transaction_store.v) < MaxCycleTx
       /\ AddTransaction(NextHash, Tx(from, to, Absent, Absent, Absent, Absent), MaxCycleTx)
  \/ DetectSuspiciousPatterns

SpecCycle == Init /\ [][NextCycle]_vars

\* the findings of one type in the list detect_suspicious_patterns returned
FindingsOfType(type) ==
  IF last.op = "detect_suspicious_patterns"
  THEN SelectSeq(last.ret.v, LAMBDA f : DictGet(f, K_type, None) = type)
  ELSE <<>>

Elements(xs) == {xs[i] : i \in 1..Len(xs)}

StoredEdges ==
  {<<DictGet(transaction_store.v[i][2], K_from, None),
     DictGet(transaction_store.v[i][2], K_to, None)>> : i \in 1..Len(transaction_store.v)}

StoredHashes == Elements(DictKeys(transaction_store))

\* the store holds exactly the three transactions x->y, y->z, z->x
IsTriangle ==
  /\ Len(transaction_store.v) = 3
  /\ \E x, y, z \in CycleAddrs :
       /\ x # y /\ y # z /\ x # z
       /\ StoredEdges = {<<x, y>>, <<y, z>>, <<z, x>>}

FindingAddresses(f) == DictGet(f, K_addresses, PyList(<<>>)).v
FindingTransactions(f) == DictGet(f, K_transactions, PyList(<<>>)).v

CoversTriangle(f) ==
  /\ Len(FindingAddresses(f)) = 3
  /\ Elements(FindingAddresses(f)) = CycleAddrs
  /\ Len(FindingTransactions(f)) = 3
  /\ Elements(FindingTransactions(f)) = StoredHashes

\* C3 as stated: on a store holding exactly A->B, B->C and C->A,
\* detect_suspicious_patterns returns exactly one cyclic-transfer finding,
\* whose addresses are exactly {A, B, C} and whose transactions are the
\* three hashes.
C3_Original ==
  (last.op = "detect_suspicious_patterns" /\ IsTriangle)
    => LET fs == FindingsOfType(S_cyclic_transfers)
       IN  Len(fs) = 1 /\ CoversTriangle(fs[1])

\* What the code returns on such a store: three cyclic-transfer findings,
\* one per starting address A, B and C, in the order the addresses first
\* appear as senders; each finding's address sequence starts at its
\* starting address and contains exactly {A, B, C}, and each finding's
\* transaction list holds exactly the three hashes.
C3_OneFindingPerStart ==
  (last.op = "detect_suspicious_patterns" /\ IsTriangle)
    => LET fs == FindingsOfType(S_cyclic_transfers)
       IN  /\ Len(fs) = 3
           /\ \A i \in 1..3 :
                /\ CoversTriangle(fs[i])
                /\ FindingAddresses(fs[i])[1] = DictGet(transaction_store.v[i][2], K_from, None)
                /\ <<FindingAddresses(fs[i])[1], FindingAddresses(fs[i])[2]>> \in StoredEdges
                /\ <<FindingAddresses(fs[i])[2], FindingAddresses(fs[i])[3]>> \in StoredEdges

\* detection has run on a triangle inserted as C->A, A->B, B->C
C3_Witness ==
  /\ last.op = "detect_suspicious_patterns"
  /\ IsTriangle
  /\ DictGet(transaction_store.v[1][2], K_from, None) = AddrC
  /\ DictGet(transaction_store.v[1][2], K_to, None) = AddrA
  /\ DictGet(transaction_store.v[2][2], K_from, None) = AddrA
  /\ Len(FindingsOfType(S_cyclic_transfers)) > 0


-----------------------------------------------------------------------------
(* SpecSnapshot: a small store that is saved and loaded *)

MaxSnapshotTx == 1

Label == PyStr(<<"l", "a", "b", "e", "l">>)
Exchange == PyStr(<<"e", "x", "c", "h", "a", "n", "g", "e">>)
Mixer == PyStr(<<"m", "i", "x", "e", "r">>)
Sent == PyStr(<<"s", "e", "n", "t">>)
Labelled(name) == PyDict(<<<<Label, name>>>>)

NextSnapshot ==
  \/ \E timestamp \in {Absent, Num(3600)} :
       AddTransaction(NextHash, Tx(AddrA, AddrB, HexAbove, timestamp, Absent, Absent),
                      MaxSnapshotTx)
  \/ AddEntity(AddrA, Labelled(Exchange))
  \/ AddRelation(AddrA, AddrB, Sent, Labelled(Mixer))
  \/ \E io \in {"ok", "open_fails", "write_fails"} : SaveToFile(io)
  \/ \E io \in {"ok", "open_fails"} : LoadFromFile(io)

SpecSnapshot == Init /\ [][NextSnapshot]_vars

\* C7: for every store reachable by add_transaction, add_entity and
\* add_relation, a successful save_to_file followed by load_from_file of the
\* saved document into a fresh store succeeds and yields transaction,
\* entity, pattern and relation stores equal to the saved ones.
C7_SaveLoadRoundTrip ==
  (last.op = "save_to_file" /\ last.ret = True)
    => LET r == load_from_file(EmptyKB, disk, "ok")
       IN  r.ret = True /\ r.kb = KB

\* a successful save of a store with a transaction, its large-transfer
\* pattern, a merged entity record, a None link and a relation
C7_Witness ==
  /\ last.op = "save_to_file"
  /\ last.ret = True
  /\ DictHas(transaction_store, Hash1)
  /\ HasLargeTransfer(Hash1)
  /\ DictHas(relation_store, Join3(AddrA, Sent, AddrB))
  /\ DictHas(DictGet(entity_store, AddrA, EmptyDict), Label)
  /\ DictGet(DictGet(entity_store, AddrB, EmptyDict), K_transactions, None) = PyList(<<None>>)
  /\ disk # None


-----------------------------------------------------------------------------
(* SpecStore: a client that inserts transactions, registers entities and   *)
(* relations, and queries the store                                        *)

MaxStoreTx == 1

\* the hashes the client uses: as many as the store may hold
StoreHashes == {HashSeq[i] : i \in 1..MaxStoreTx}

\* the hash field a decoded transaction carries: none, the hash it is
\* stored under, or another one
StoreTx(tx_hash) ==
  {Tx(from, to, Absent, Absent, hash, Absent) :
     from \in {AddrA, Absent}, to \in {AddrB, Absent}, hash \in {Absent, tx_hash, Hash7}}

EntityInputs == {Labelled(Exchange), NewAddressEntity}

NextStore ==
  \/ \E tx_hash \in StoreHashes : \E tx_data \in StoreTx(tx_hash) :
       AddTransaction(tx_hash, tx_data, MaxStoreTx)
  \/ \E entity_data \in EntityInputs : AddEntity(AddrA, entity_data)
  \/ \E relation_data \in {EmptyDict, Labelled(Mixer)} :
       AddRelation(AddrA, AddrC, Sent, relation_data)
  \/ \E tx_hash \in StoreHashes : GetTransaction(tx_hash)
  \/ \E address \in {AddrA, AddrC} : GetEntity(address)
  \/ \E entity \in {AddrA, AddrB} : GetRelations(entity)
  \/ \E depth \in 1..2 : QueryFundFlow(AddrA, depth)
  \/ DetectSuspiciousPatterns

SpecStore == Init /\ [][NextStore]_vars

\* the transaction list of the entity record of address holds tx_hash
EntityLists(address, tx_hash) ==
  /\ DictHas(entity_store, address)
  /\ LET txs == DictGet(DictGet(entity_store, address, EmptyDict), K_transactions, PyList(<<>>))
     IN  txs.ty = "list" /\ tx_hash \in Elements(txs.v)

\* C8: every stored relation's two endpoint addresses each have an entity
\* record (add_relation creates the missing ones).
C8_RelationEndpointsExist ==
  \A i \in 1..Len(relation_store.v) :
    LET parts == SplitColon(relation_store.v[i][1])
    IN  DictHas(entity_store, parts[1]) /\ DictHas(entity_store, parts[3])

\* C9: after add_transaction(h, fields) returns true, the entity records of
\* fields.from and fields.to (each when present) exist and their
\* transaction lists contain h, whatever hash field the fields carry.
C9_EndpointsListStoredHash ==
  (last.op = "add_transaction" /\ last.ret = True)
    => \A field \in {K_from, K_to} :
         Truthy(DictGet(last.args[2], field, None))
           => EntityLists(DictGet(last.args[2], field, None), last.args[1])

\* C10: every call of a public operation returns a value, none raises.
C10_NoCallRaises == last.exc = ""


-----------------------------------------------------------------------------
(* SpecSplit and SpecMerge: many transfers of one sender, or to one        *)
(* receiver, around an hour boundary, then detection                       *)

MaxSplitTx == 5
MaxMergeTx == 5

BeforeHour == Num(3599)
AtHour == Num(3600)

\* transfers of sender A in the first hour (one without a timestamp, one
\* without a receiver), one in the second hour, one of another sender
SplitTx ==
  {Tx(AddrA, AddrB, Absent, Absent, Absent, Absent),
   Tx(AddrA, AddrC, Absent, BeforeHour, Absent, Absent),
   Tx(AddrA, AddrD, Absent, BeforeHour, Absent, Absent),
   Tx(AddrA, Absent, Absent, BeforeHour, Absent, Absent),
   Tx(AddrA, AddrB, Absent, AtHour, Absent, Absent),
   Tx(AddrE, AddrC, Absent, BeforeHour, Absent, Absent)}

NextSplit ==
  \/ \E tx_data \in SplitTx : AddTransaction(NextHash, tx_data, MaxSplitTx)
  \/ DetectSuspiciousPatterns

SpecSplit == Init /\ [][NextSplit]_vars

\* receivers of a fan-out of sender A, a new one for every transaction
FanOutReceivers == <<AddrD, AddrE, AddrF, AddrG, AddrH, AddrI, AddrJ>>

FanOutTx(i) == Tx(AddrA, FanOutReceivers[i], Absent, BeforeHour, Absent, Absent)

\* every stored transaction so far belongs to the fan-out
OnlyFanOut ==
  \A i \in 1..Len(transaction_store.v) : transaction_store.v[i][2] = FanOutTx(i)

\* transfers to receiver B in the first hour (one without a timestamp, one
\* without a sender), one in the second hour
MergeTx ==
  {Tx(AddrA, AddrB, Absent, Absent, Absent, Absent),
   Tx(AddrC, AddrB, Absent, BeforeHour, Absent, Absent),
   Tx(AddrD, AddrB, Absent, BeforeHour, Absent, Absent),
   Tx(Absent, AddrB, Absent, BeforeHour, Absent, Absent),
   Tx(AddrA, AddrB, Absent, AtHour, Absent, Absent)}

\* the client first fans out from A, then sends to B
NextMerge ==
  \/ \E tx_data \in MergeTx : AddTransaction(NextHash, tx_data, MaxMergeTx)
  \/ /\ OnlyFanOut
     /\ AddTransaction(NextHash, FanOutTx(Len(transaction_store.v) + 1), MaxMergeTx)
  \/ DetectSuspiciousPatterns

SpecMerge == Init /\ [][NextMerge]_vars

Buckets == {0, HourSeconds}

TimestampOf(tx_data) == LimbsNat(DictGet(tx_data, K_timestamp, Num(0)).v)

\* the positions of the stored transactions whose endpoint (field) is addr
\* and whose timestamp lies in the hour starting at bucket
GroupOf(field, addr, bucket) ==
  {i \in 1..Len(transaction_store.v) :
     /\ DictGet(transaction_store.v[i][2], field, None) = addr
     /\ bucket <= TimestampOf(transaction_store.v[i][2])
     /\ TimestampOf(transaction_store.v[i][2]) < bucket + HourSeconds}

\* the distinct addresses at the other end of a group
Counterparties(group, other) ==
  {DictGet(transaction_store.v[i][2], other, None) : i \in group} \ {None}

GroupHashes(group) == {transaction_store.v[i][1] : i \in group}

\* the findings of the given type that name addr and a transaction of group
FindingsFor(type, name_field, addr, group) ==
  LET fs == FindingsOfType(type)
  IN  {k \in 1..Len(fs) :
         /\ DictGet(fs[k], name_field, None) = addr
         /\ Elements(FindingTransactions(fs[k])) \cap GroupHashes(group) # {}}

FindingMatches(f, count_field, group, other) ==
  /\ DictGet(f, count_field, None) = Num(Cardinality(Counterparties(group, other)))
  /\ DictGet(f, K_transaction_count, None) = Num(Cardinality(group))
  /\ Len(FindingTransactions(f)) = Cardinality(group)
  /\ Elements(FindingTransactions(f)) = GroupHashes(group)

Qualifies(group, other) ==
  Cardinality(group) >= 5 /\ Cardinality(Counterparties(group, other)) >= 3

AllAddrs == {AddrA, AddrB, AddrC, AddrD, AddrE, AddrF, AddrG, AddrH, AddrI, AddrJ}

C5_MergingFindings ==
  last.op = "detect_suspicious_patterns"
    => /\ \A receiver \in AllAddrs, bucket \in Buckets :
            LET group == GroupOf(K_to, receiver, bucket)
                found == FindingsFor(S_fund_merging, K_to_address, receiver, group)
            IN  IF Qualifies(group, K_from)
                THEN /\ Cardinality(found) = 1
                     /\ \A k \in found :
                          FindingMatches(FindingsOfType(S_fund_merging)[k],
                                         K_sender_count, group, K_from)
                ELSE found = {}
       /\ Len(FindingsOfType(S_fund_merging)) =
            Cardinality({rb \in AllAddrs \X Buckets :
                           Qualifies(GroupOf(K_to, rb[1], rb[2]), K_from)})
       /\ (/\ Cardinality({e[1] : e \in StoredEdges}) = 1
           /\ Cardinality({e[2] : e \in StoredEdges}) = Len(transaction_store.v))
            => FindingsOfType(S_fund_merging) = <<>>

\* detection has run on a fan-out of five transfers of A to five receivers
C5_FanOutReached ==
  /\ last.op = "detect_suspicious_patterns"
  /\ Len(transaction_store.v) = 5
  /\ OnlyFanOut

\* detection has run on five transfers to B in the first hour, from A, C
\* and D and one without a sender, and returned a merging finding
C5_Witness ==
  /\ last.op = "detect_suspicious_patterns"
  /\ Cardinality(GroupOf(K_to, AddrB, 0)) = 5
  /\ Counterparties(GroupOf(K_to, AddrB, 0), K_from) = {AddrA, AddrC, AddrD}
  /\ \E i \in 1..5 : ~DictHas(transaction_store.v[i][2], K_from)
  /\ Len(FindingsOfType(S_fund_merging)) = 1


-----------------------------------------------------------------------------
(* SpecFlow: transfers among three addresses, then fund-flow queries *)

MaxFlowTx == 2
MaxFlowDepth == 3

FlowTx ==
  {Tx(from, to, Absent, timestamp, Absent, Absent) :
     from \in CycleAddrs, to \in CycleAddrs \cup {Absent}, timestamp \in {Num(1), Num(2)}}

\* the depths a caller asks for, a negative one included
FlowDepths == -1..MaxFlowDepth

NextFlow ==
  \/ \E tx_data \in FlowTx : AddTransaction(NextHash, tx_data, MaxFlowTx)
  \/ \E source_address \in {AddrA, AddrD}, depth \in FlowDepths :
       QueryFundFlow(source_address, depth)

SpecFlow == Init /\ [][NextFlow]_vars

\* the positions of the stored transactions sent by source to a receiver
OutgoingWithReceiver(source) ==
  {i \in 1..Len(transaction_store.v) :
     /\ DictGet(transaction_store.v[i][2], K_from, None) = source
     /\ Truthy(DictGet(transaction_store.v[i][2], K_to, None))}

\* path is the single hop of the stored transaction at position i
IsSingleHopOf(path, i) ==
  /\ Len(path.v) = 1
  /\ DictGet(path.v[1], K_tx_hash, None) = transaction_store.v[i][1]
  /\ DictGet(path.v[1], K_from, None) = DictGet(transaction_store.v[i][2], K_from, None)
  /\ DictGet(path.v[1], K_to, None) = DictGet(transaction_store.v[i][2], K_to, None)

\* C6: every path query_fund_flow(source, d) returns for d >= 1 has at
\* least 1 and at most d hops; with d = 1 the result is one single-hop path
\* per stored transaction of the source that has a receiver.
C6_PathsWithinDepth ==
  (last.op = "query_fund_flow" /\ last.args[2] >= 1)
    => /\ \A k \in 1..Len(last.ret.v) :
            Len(last.ret.v[k].v) >= 1 /\ Len(last.ret.v[k].v) <= last.args[2]
       /\ last.args[2] = 1
            => /\ Len(last.ret.v) = Cardinality(OutgoingWithReceiver(last.args[1]))
               /\ \A i \in OutgoingWithReceiver(last.args[1]) :
                    \E k \in 1..Len(last.ret.v) : IsSingleHopOf(last.ret.v[k], i)

\* a depth-1 query of a source with two outgoing transfers, the older one
\* stored first, returned the newer one first
C6_Witness ==
  /\ last.op = "query_fund_flow"
  /\ last.args = <<AddrA, 1>>
  /\ Cardinality(OutgoingWithReceiver(AddrA)) = 2
  /\ TimestampOf(transaction_store.v[1][2]) < TimestampOf(transaction_store.v[2][2])
  /\ Len(last.ret.v) = 2
  /\ IsSingleHopOf(last.ret.v[1], 2)

\* the positions of the stored transactions sent by source
OutgoingOf(source) ==
  {i \in 1..Len(transaction_store.v) :
     DictGet(transaction_store.v[i][2], K_from, None) = source}

\* C15: query_fund_flow(source, depth) returns an empty path list and raises
\* nothing when no stored transaction has the source as its sender (an
\* address unknown to the store included) and when depth <= 0, whatever the
\* store holds.
C15_EmptyWithoutOutgoingOrDepth ==
  (last.op = "query_fund_flow" /\ (OutgoingOf(last.args[1]) = {} \/ last.args[2] <= 0))
    => last.ret = PyList(<<>>) /\ last.exc = ""

\* a query with a negative depth of a source that sends to itself and to
\* another address returned no path
C15_Witness ==
  /\ last.op = "query_fund_flow"
  /\ last.args = <<AddrA, -1>>
  /\ {<<AddrA, AddrA>>, <<AddrA, AddrB>>} \subseteq StoredEdges
  /\ last.ret = PyList(<<>>)

\* the stored transactions sent by source to a receiver that sends nothing
HopsToTerminal(source) ==
  {i \in OutgoingWithReceiver(source) :
     OutgoingOf(DictGet(transaction_store.v[i][2], K_to, None)) = {}}

\* the address the last hop of a path ends at
PathEnd(path) == DictGet(path.v[Len(path.v)], K_to, None)

\* C20: for d >= 1, query_fund_flow(source, d) returns a path ending at
\* every terminal address the traversal reaches, also when it is reached
\* with remaining depth greater than 1; stated for the hops out of the
\* source, which the traversal always follows: for every stored transfer
\* of the source to an address T without outgoing transfers, some returned
\* path ends at T.
C20_PathToEveryTerminal ==
  (last.op = "query_fund_flow" /\ last.args[2] >= 1)
    => \A i \in HopsToTerminal(last.args[1]) :
         \E k \in 1..Len(last.ret.v) :
           /\ Len(last.ret.v[k].v) >= 1
           /\ PathEnd(last.ret.v[k]) = DictGet(transaction_store.v[i][2], K_to, None)

\* What the code does on a store that holds a single transfer A -> B: the
\* path [A -> B] is returned at depth 1 only; at a greater depth the hop is
\* followed, B has nothing to follow, and no path is recorded.
C20_LeafRecordedAtLastDepthOnly ==
  (/\ last.op = "query_fund_flow"
   /\ last.args[1] = AddrA
   /\ last.args[2] >= 1
   /\ Len(transaction_store.v) = 1
   /\ StoredEdges = {<<AddrA, AddrB>>})
    => IF last.args[2] = 1
       THEN Len(last.ret.v) = 1 /\ IsSingleHopOf(last.ret.v[1], 1)
       ELSE last.ret = PyList(<<>>)

\* a query with a positive depth of an address the store has never seen
\* returned no path
C15_UnknownSourceReached ==
  /\ last.op = "query_fund_flow"
  /\ last.args = <<AddrD, MaxFlowDepth>>
  /\ Len(transaction_store.v) = MaxFlowTx
  /\ ~DictHas(entity_store, AddrD)
  /\ last.ret = PyList(<<>>)


-----------------------------------------------------------------------------
(* SpecCreate: transactions with and without a receiver and with the input *)
(* payloads a decoded transaction may carry                                *)

MaxCreateTx == 2

\* input payloads: none ("0x"), one byte of code, the empty string, null
InputCode == PyStr(<<"0", "x", "6", "0">>)
EmptyStr == PyStr(<<>>)

CreateInputs == {Absent, S_0x, InputCode, EmptyStr, None}

CreateTx ==
  {Tx(from, to, Absent, Absent, Absent, input) :
     from \in {AddrA, Absent}, to \in {AddrB, Absent}, input \in CreateInputs}

NextCreate ==
  \E tx_data \in CreateTx : AddTransaction(NextHash, tx_data, MaxCreateTx)

SpecCreate == Init /\ [][NextCreate]_vars

\* the pattern store holds a contract-creation pattern for tx_hash,
\* attributed to creator
HasContractCreation(tx_hash, creator) ==
  \E i \in 1..Len(pattern_store.v) :
    /\ DictGet(pattern_store.v[i][2], K_type, None) = S_contract_creation
    /\ DictGet(pattern_store.v[i][2], K_tx_hash, None) = tx_hash
    /\ DictGet(pattern_store.v[i][2], K_creator, Absent) = creator

NoContractCreation(tx_hash) ==
  \A i \in 1..Len(pattern_store.v) :
    /\ pattern_store.v[i][1] # Join2(S_contract_creation, tx_hash)
    /\ ~(/\ DictGet(pattern_store.v[i][2], K_type, None) = S_contract_creation
         /\ DictGet(pattern_store.v[i][2], K_tx_hash, None) = tx_hash)

\* the fields carry an input payload of at least one byte: a string with
\* something after its 0x prefix
HasInputPayload(tx_data) ==
  LET input == DictGet(tx_data, K_input, None)
  IN  input.ty = "str" /\ HexBody(input.v) # <<>>

\* C11: after add_transaction(h, fields) returns true, a contract-creation
\* pattern for h, attributed to fields.from, exists if and only if the
\* fields have no receiver and a non-empty input payload; with a receiver,
\* or with an absent or empty payload, there is none.
C11_ContractCreationIff ==
  (last.op = "add_transaction" /\ last.ret = True)
    => IF ~Truthy(DictGet(last.args[2], K_to, None)) /\ HasInputPayload(last.args[2])
       THEN HasContractCreation(last.args[1], DictGet(last.args[2], K_from, None))
       ELSE NoContractCreation(last.args[1])

\* What the code does: the pattern is recorded exactly when the fields have
\* no receiver and an input value different from the string "0x", so the
\* empty string and null count as payloads.
C11_RecordedUnlessInputIs0x ==
  (last.op = "add_transaction" /\ last.ret = True)
    => IF /\ ~Truthy(DictGet(last.args[2], K_to, None))
          /\ DictGet(last.args[2], K_input, S_0x) # S_0x
       THEN HasContractCreation(last.args[1], DictGet(last.args[2], K_from, None))
       ELSE NoContractCreation(last.args[1])


-----------------------------------------------------------------------------
(* SpecReload: a store that is saved, grows, and is loaded again, from its *)
(* own snapshot or from a snapshot another store wrote                     *)

MaxReloadTx == 2

ReloadTx ==
  {Tx(AddrA, AddrB, HexAbove, Absent, Absent, Absent),
   Tx(AddrC, AddrA, Absent, Absent, Absent, Absent)}

\* the snapshot of a store that holds one transaction, h1: B -> C
ForeignSnapshot ==
  json_dump(snapshot_data(
    add_transaction(EmptyKB, Hash1, Tx(AddrB, AddrC, Absent, Absent, Absent, Absent)).kb))

\* another program writes the file
ForeignWrite(doc) ==
  /\ disk # FileOf(doc)
  /\ disk' = FileOf(doc)
  /\ last' = [op |-> "foreign_write", args |-> <<>>, ret |-> None, exc |-> ""]
  /\ UNCHANGED <<transaction_store, entity_store, pattern_store, relation_store, knowledge_graph>>

NextReload ==
  \/ \E tx_data \in ReloadTx : AddTransaction(NextHash, tx_data, MaxReloadTx)
  \/ AddRelation(AddrA, AddrB, Sent, Labelled(Mixer))
  \/ \E io \in {"ok", "write_fails"} : SaveToFile(io)
  \/ \E io \in {"ok", "open_fails"} : LoadFromFile(io)
  \/ ForeignWrite(ForeignSnapshot)

SpecReload == Init /\ [][NextReload]_vars

\* the value of the member of the document on disk with the given name, as
\* json.load returns it; an empty mapping when the document has no such member
DocumentStore(name) ==
  LET members == disk.v.v
      at == {i \in 1..Len(members) : members[i][1] = name.v}
  IN  IF at = {} THEN EmptyDict ELSE json_load(members[CHOOSE i \in at : TRUE][2])

\* C12: after load_from_file returns true the four stores equal the
\* transactions, entities, patterns and relations of the loaded document;
\* a hash that was stored only before the load is absent afterwards, and
\* add_transaction of that hash returns true.
C12_LoadReplacesState ==
  [][(last'.op = "load_from_file" /\ last'.ret = True)
       => /\ transaction_store' = DocumentStore(K_transactions)
          /\ entity_store' = DocumentStore(K_entities)
          /\ pattern_store' = DocumentStore(K_patterns)
          /\ relation_store' = DocumentStore(K_relations)
          /\ \A i \in 1..Len(transaction_store.v) :
               ~DictHas(DocumentStore(K_transactions), transaction_store.v[i][1])
                 => /\ ~DictHas(transaction_store', transaction_store.v[i][1])
                    /\ \A tx_data \in ReloadTx :
                         add_transaction(KB', transaction_store.v[i][1], tx_data).ret = True]_vars

\* a load has replaced the store by the snapshot of another store: h1 is
\* now B -> C, and neither the relation nor the large-transfer pattern of
\* any earlier state is there
C12_Witness ==
  /\ last.op = "load_from_file"
  /\ last.ret = True
  /\ disk = FileOf(ForeignSnapshot)
  /\ DictKeys(transaction_store) = <<Hash1>>
  /\ DictGet(DictGet(transaction_store, Hash1, EmptyDict), K_from, None) = AddrB
  /\ relation_store = EmptyDict
  /\ pattern_store = EmptyDict


-----------------------------------------------------------------------------
(* SpecCorrupt: loading files that do not hold a snapshot *)

MaxCorruptTx == 1

\* documents that decode but are not snapshots: [], "A", {}, a snapshot
\* whose transactions are a list, a snapshot without its relations
CorruptDocuments ==
  {JArray(<<>>),
   JString(<<"A">>),
   JObject(<<>>),
   JObject(<<<<K_transactions.v, JArray(<<>>)>>, <<K_entities.v, JObject(<<>>)>>,
             <<K_patterns.v, JObject(<<>>)>>, <<K_relations.v, JObject(<<>>)>>>>),
   JObject(<<<<K_transactions.v, JObject(<<>>)>>, <<K_entities.v, JObject(<<>>)>>,
             <<K_patterns.v, JObject(<<>>)>>>>)}

NextCorrupt ==
  \/ \E tx_data \in ReloadTx : AddTransaction(NextHash, tx_data, MaxCorruptTx)
  \/ \E io \in {"ok", "open_fails", "write_fails"} : SaveToFile(io)
  \/ \E io \in {"ok", "open_fails"} : LoadFromFile(io)
  \/ \E doc \in CorruptDocuments : ForeignWrite(doc)

SpecCorrupt == Init /\ [][NextCorrupt]_vars

\* the document has the four top-level mappings of a snapshot
HasFourMappings(doc) ==
  /\ doc.j = "object"
  /\ \A name \in {K_transactions, K_entities, K_patterns, K_relations} :
       \E i \in 1..Len(doc.v) : doc.v[i][1] = name.v /\ doc.v[i][2].j = "object"

\* C13: load_from_file returns false, and does not raise, whenever the file
\* cannot be read, cannot be decoded, or decodes to a document that does
\* not have the top-level mappings transactions, entities, patterns and
\* relations; save_to_file returns false, and does not raise, whenever
\* writing fails.
C13_FailuresReturnFalse ==
  /\ last.op = "load_from_file"
       => /\ last.exc = ""
          /\ (last.args[1] # "ok" \/ disk.ty # "file" \/ ~HasFourMappings(disk.v))
               => last.ret = False
  /\ last.op = "save_to_file"
       => /\ last.exc = ""
          /\ last.args[1] # "ok" => last.ret = False

\* What the code does: load_from_file returns false exactly when the file
\* cannot be read or decoded or the document is not a JSON object; every
\* JSON object is accepted, a missing member read as an empty mapping and a
\* member of another type stored as it is.  Neither operation raises.
C13_OnlyNonObjectsRejected ==
  /\ last.op = "load_from_file"
       => /\ last.exc = ""
          /\ last.ret = IF last.args[1] = "ok" /\ disk.ty = "file" /\ disk.v.j = "object"
                        THEN True ELSE False
  /\ last.op = "save_to_file"
       => /\ last.exc = ""
          /\ last.ret = IF last.args[1] = "ok" THEN True ELSE False


-----------------------------------------------------------------------------
(* SpecEndpoints: transactions that lack their sender, their receiver or   *)
(* both, on a store whose entities may have been registered before         *)

MaxEndpointsTx == 2

\* a receiver can be missing from the fields or be null
EndpointsTx ==
  {Tx(from, to, Absent, Absent, Absent, Absent) :
     from \in {AddrA, Absent}, to \in {AddrB, Absent, None}}

\* an address record with a label
Registered ==
  PyDict(<<<<K_type, S_address>>, <<K_transactions, PyList(<<>>)>>, <<Label, Exchange>>>>)

NextEndpoints ==
  \/ \E tx_data \in EndpointsTx : AddTransaction(NextHash, tx_data, MaxEndpointsTx)
  \/ AddEntity(AddrA, Registered)

SpecEndpoints == Init /\ [][NextEndpoints]_vars

\* the endpoints the fields name
PresentEndpoints(tx_data) ==
  {DictGet(tx_data, field, None) :
     field \in {f \in {K_from, K_to} : Truthy(DictGet(tx_data, f, None))}}

\* the number of times addr is an endpoint of the fields
TimesEndpoint(tx_data, addr) ==
  Cardinality({f \in {K_from, K_to} : DictGet(tx_data, f, None) = addr})

LinkCount(es, addr) ==
  Len(DictGet(DictGet(es, addr, EmptyDict), K_transactions, PyList(<<>>)).v)

\* C14: add_transaction of a new hash whose fields lack the sender, the
\* receiver or both returns true and stores the fields under the hash; the
\* entity records after the call are those before it and those of the
\* endpoints that are present, each present endpoint's record gains one
\* link, and every other record is left as it was.
C14_AbsentEndpointSkipped ==
  [][(/\ last'.op = "add_transaction"
      /\ ~DictHas(transaction_store, last'.args[1])
      /\ PresentEndpoints(last'.args[2]) # {AddrA, AddrB})
       => /\ last'.ret = True
          /\ last'.exc = ""
          /\ DictGet(transaction_store', last'.args[1], None) = last'.args[2]
          /\ Len(transaction_store'.v) = Len(transaction_store.v) + 1
          /\ Elements(DictKeys(entity_store')) =
               Elements(DictKeys(entity_store)) \cup PresentEndpoints(last'.args[2])
          /\ Len(entity_store'.v) = Cardinality(Elements(DictKeys(entity_store')))
          /\ \A i \in 1..Len(entity_store'.v) :
               LET addr == entity_store'.v[i][1]
               IN  IF addr \in PresentEndpoints(last'.args[2])
                   THEN LinkCount(entity_store', addr) =
                          LinkCount(entity_store, addr) + TimesEndpoint(last'.args[2], addr)
                   ELSE entity_store'.v[i][2] = DictGet(entity_store, addr, None)]_vars

\* a transaction without receiver was stored after one without sender: A
\* and B each have one link and there are no other records
C14_Witness ==
  /\ last.op = "add_transaction"
  /\ last.ret = True
  /\ last.args[1] = Hash2
  /\ ~DictHas(last.args[2], K_to)
  /\ ~DictHas(DictGet(transaction_store, Hash1, EmptyDict), K_from)
  /\ Elements(DictKeys(entity_store)) = {AddrA, AddrB}
  /\ LinkCount(entity_store, AddrA) = 1
  /\ LinkCount(entity_store, AddrB) = 1


-----------------------------------------------------------------------------
(* SpecRelations: a client that registers relations and asks for the       *)
(* relations of an address                                                 *)

MaxRelations == 2

\* a chain-scoped address, "1:A"
ScopedA == PyStr(<<"1", ":", "A">>)
Owns == PyStr(<<"o", "w", "n", "s">>)

RelationEntities == {AddrA, AddrB, ScopedA}
RelationTypes == {Sent, Owns}
RelationData == {EmptyDict, Labelled(Mixer), Labelled(Exchange)}

NextRelations ==
  \/ \E entity1 \in RelationEntities, entity2 \in RelationEntities,
        relation_type \in RelationTypes, relation_data \in RelationData :
       /\ \/ DictHas(relation_store, Join3(entity1, relation_type, entity2))
          \/ Len(relation_store.v) < MaxRelations
       /\ AddRelation(entity1, entity2, relation_type, relation_data)
  \/ \E entity \in RelationEntities : GetRelations(entity)

SpecRelations == Init /\ [][NextRelations]_vars

\* the (source, type, target) triples add_relation has stored
StoredRelations ==
  {r \in RelationEntities \X RelationTypes \X RelationEntities :
     DictHas(relation_store, Join3(r[1], r[2], r[3]))}

\* the positions of the records in the list get_relations returned that
\* describe the stored relation r
RecordsOf(r) ==
  {k \in 1..Len(last.ret.v) :
     /\ DictGet(last.ret.v[k], K_entity1, None) = r[1]
     /\ DictGet(last.ret.v[k], K_type, None) = r[2]
     /\ DictGet(last.ret.v[k], K_entity2, None) = r[3]
     /\ DictGet(last.ret.v[k], K_data, None) =
          DictGet(relation_store, Join3(r[1], r[2], r[3]), None)}

RelationsOfEndpoint(a) == {r \in StoredRelations : r[1] = a \/ r[3] = a}

\* C16: get_relations(a) returns exactly the stored relations whose source
\* or target is a, each once, as {entity1: source, entity2: target,
\* type: relation type, data: the merged property bag}; none is omitted.
C16_RelationsOfEndpoint ==
  last.op = "get_relations"
    => /\ \A r \in RelationsOfEndpoint(last.args[1]) : Cardinality(RecordsOf(r)) = 1
       /\ Len(last.ret.v) = Cardinality(RelationsOfEndpoint(last.args[1]))

\* What the code does: the relations whose addresses and type hold no ":"
\* are returned as the claim says; a relation with a ":" in an address or
\* in its type has a key of more than three parts and is never returned.
C16_OnlyKeysOfThreeParts ==
  last.op = "get_relations"
    => /\ \A r \in RelationsOfEndpoint(last.args[1]) :
            Cardinality(RecordsOf(r)) = IF ScopedA \in {r[1], r[3]} THEN 0 ELSE 1
       /\ Len(last.ret.v) =
            Cardinality({r \in RelationsOfEndpoint(last.args[1]) : ScopedA \notin {r[1], r[3]}})


-----------------------------------------------------------------------------
(* SpecGraph: a client that adds entities and relationships to the         *)
(* generalized knowledge graph, queries entities and exports the graph     *)

\* mutating calls are made while the graph has stored fewer clock readings
MaxGraphUpdates == 3

Address == PyStr(<<"A", "d", "d", "r", "e", "s", "s">>)
Token == PyStr(<<"T", "o", "k", "e", "n">>)
TokenT == PyStr(<<"T">>)
RelOwns == PyStr(<<"O", "w", "n", "s">>)
Amount == PyStr(<<"a", "m", "o", "u", "n", "t">>)

GraphProperties == {None, Labelled(Exchange), Labelled(Mixer)}

NextGraph ==
  \/ \E entity_id \in {AddrA, AddrB}, properties \in GraphProperties :
       /\ knowledge_graph.last_updated < MaxGraphUpdates
       /\ GraphAddEntity(Address, entity_id, properties)
  \/ \E to_entity \in {<<Token, TokenT>>, <<Address, AddrB>>},
        properties \in {None, PyDict(<<<<Amount, Num(1)>>>>)} :
       /\ knowledge_graph.last_updated < MaxGraphUpdates
       /\ GraphAddRelationship(<<Address, AddrA>>, RelOwns, to_entity, properties)
  \/ \E entity \in {<<Address, AddrA>>, <<Address, AddrB>>, <<Token, TokenT>>} :
       GraphQueryEntity(entity[1], entity[2])
  \/ GraphExportToJson

SpecGraph == Init /\ [][NextGraph]_vars

\* the atoms of one kind in the space of graph g, in the order they were added
AtomsOf(g, kind) == SelectSeq(g.space, LAMBDA atom : atom.kind = kind)

\* query_entity(type, id) on graph g does not return the not-found error
Found(g, entity_type, entity_id) ==
  LET ret == kg_query_entity(g, entity_type, entity_id).ret
  IN  ~DictHas(ret, K_error) /\ DictGet(ret, K_type, None) = entity_type
        /\ DictGet(ret, K_id, None) = entity_id

\* C17: both endpoints of every relationship added to the graph are
\* recorded entities, and query_entity on either endpoint does not return
\* the not-found error.
C17_EndpointsRecorded ==
  /\ \A i \in 1..Len(AtomsOf(knowledge_graph, "Relationship")) :
       LET rel == AtomsOf(knowledge_graph, "Relationship")[i].args
       IN  /\ Join2(rel[1], rel[2]) \in knowledge_graph.entities
           /\ Join2(rel[4], rel[5]) \in knowledge_graph.entities
           /\ Join3(Join2(rel[1], rel[2]), rel[3], Join2(rel[4], rel[5]))
                \in knowledge_graph.relationships
           /\ Found(knowledge_graph, rel[1], rel[2])
           /\ Found(knowledge_graph, rel[4], rel[5])
  /\ Cardinality(knowledge_graph.relationships) <=
       Len(AtomsOf(knowledge_graph, "Relationship"))

\* a query of the token found it, and the token was never passed to
\* add_entity by the client: it is the target of a relationship
C17_Witness ==
  /\ last.op = "KnowledgeGraph.query_entity"
  /\ last.args = <<Token, TokenT>>
  /\ ~DictHas(last.ret, K_error)
  /\ Join3(Join2(Address, AddrA), RelOwns, Join2(Token, TokenT)) \in knowledge_graph.relationships

\* the properties given for an entity over all the calls that named it,
\* later values overriding earlier ones
RECURSIVE MergedProperties(_, _, _, _)
MergedProperties(atoms, head, i, properties) ==
  IF i > Len(atoms) THEN properties
  ELSE MergedProperties(atoms, head, i + 1,
         IF SubSeq(atoms[i].args, 1, 2) = head
         THEN DictSet(properties, atoms[i].args[3], json_load(atoms[i].args[4]))
         ELSE properties)

WasAdded(g, entity_type, entity_id) ==
  \E i \in 1..Len(AtomsOf(g, "Entity")) :
    AtomsOf(g, "Entity")[i].args = <<entity_type, entity_id>>

\* C19: query_entity(type, id) returns the not-found error exactly when
\* (type, id) was never added, by add_entity or as the endpoint of a
\* relationship; for an added entity it returns the properties given to
\* add_entity for it, merged over all calls, later values overriding
\* earlier ones.
C19_QueryReturnsProperties ==
  last.op = "KnowledgeGraph.query_entity"
    => /\ DictHas(last.ret, K_error) <=> ~WasAdded(knowledge_graph, last.args[1], last.args[2])
       /\ WasAdded(knowledge_graph, last.args[1], last.args[2])
            => DictGet(last.ret, K_properties, None) =
                 MergedProperties(AtomsOf(knowledge_graph, "Property"),
                                  <<last.args[1], last.args[2]>>, 1, EmptyDict)

\* What the code does: the not-found error is returned exactly for the
\* entities never added; for an added entity the properties returned are
\* always empty, because the query of the space yields no result.
C19_PropertiesAlwaysEmpty ==
  last.op = "KnowledgeGraph.query_entity"
    => /\ DictHas(last.ret, K_error) <=> ~WasAdded(knowledge_graph, last.args[1], last.args[2])
       /\ WasAdded(knowledge_graph, last.args[1], last.args[2])
            => last.ret = PyDict(<<<<K_type, last.args[1]>>, <<K_id, last.args[2]>>,
                                   <<K_properties, EmptyDict>>>>)

\* the property atoms of a graph, as a set
PropertyAtoms(g) ==
  Elements(AtomsOf(g, "Property")) \cup Elements(AtomsOf(g, "RelProperty"))

\* C18: export_to_json followed by import_from_json of the exported
\* document into a fresh graph succeeds and yields a graph with the same
\* entities and relationships, with their properties.
C18_ExportImportRoundTrip ==
  last.op = "KnowledgeGraph.export_to_json"
    => /\ last.exc = ""
       /\ LET r == kg_import_from_json(EmptyGraph, last.ret)
          IN  /\ r.ret = True
              /\ r.g.entities = knowledge_graph.entities
              /\ r.g.relationships = knowledge_graph.relationships
              /\ PropertyAtoms(r.g) = PropertyAtoms(knowledge_graph)

\* What the code does: export_to_json raises ValueError as soon as the graph
\* holds a relationship; without relationships the exported document
\* imports into a fresh graph with the same entities and no properties.
C18_ExportRaisesOnRelationships ==
  last.op = "KnowledgeGraph.export_to_json"
    => IF knowledge_graph.relationships # {}
       THEN last.exc = "ValueError"
       ELSE /\ last.exc = ""
            /\ LET r == kg_import_from_json(EmptyGraph, last.ret)
               IN  /\ r.ret = True
                   /\ r.g.entities = knowledge_graph.entities
                   /\ r.g.relationships = {}
                   /\ PropertyAtoms(r.g) = {}

-----------------------------------------------------------------------------
(* SpecTrace: transfers that close cycles, repeat a sender and reach an    *)
(* address over two routes, then fund-flow queries from A                  *)

MaxTraceTx == 4
MaxTraceDepth == 3

TraceEdges ==
  {<<AddrA, AddrA>>, <<AddrA, AddrB>>, <<AddrA, AddrC>>,
   <<AddrB, AddrA>>, <<AddrB, AddrC>>, <<AddrC, AddrA>>}

TraceTx == {Tx(e[1], e[2], Absent, Absent, Absent, Absent) : e \in TraceEdges}

NextTrace ==
  \/ \E tx_data \in TraceTx : AddTransaction(NextHash, tx_data, MaxTraceTx)
  \/ \E depth \in 1..MaxTraceDepth : QueryFundFlow(AddrA, depth)

SpecTrace == Init /\ [][NextTrace]_vars

\* the search the last query ran; queries leave the store as it was
LastTrace == trace_from(transaction_store, last.args[1], last.args[2])

\* the addresses that send or receive a stored transaction
StoredAddresses == {e[1] : e \in StoredEdges} \cup {e[2] : e \in StoredEdges}

\* C21: within one query_fund_flow call each address has its outgoing
\* transactions collected at most once, whatever cycles and self-transfers
\* the store holds, and the call returns: the log of expanded addresses has
\* no repetition, holds only the source and stored addresses, and no more
\* paths are returned than transactions are stored.
C21_ExpandedAtMostOnce ==
  last.op = "query_fund_flow"
    => LET search == LastTrace
       IN  /\ last.exc = "" /\ last.ret = PyList(search.paths)
           /\ \A i, j \in 1..Len(search.expanded) :
                search.expanded[i] = search.expanded[j] => i = j
           /\ Elements(search.expanded) \subseteq StoredAddresses \cup {last.args[1]}
           /\ Len(last.ret.v) <= Len(transaction_store.v)

\* a query at the greatest depth of a store where A sends to itself, A and B
\* send to each other and C is reached from A and from B expanded A, B and C
\* once each
C21_Witness ==
  /\ last.op = "query_fund_flow"
  /\ last.args = <<AddrA, MaxTraceDepth>>
  /\ StoredEdges = {<<AddrA, AddrA>>, <<AddrA, AddrB>>, <<AddrB, AddrA>>, <<AddrB, AddrC>>}
  /\ Len(LastTrace.expanded) = 3
  /\ Elements(LastTrace.expanded) = {AddrA, AddrB, AddrC}

\* the stored transaction a hop names has the hop's sender and receiver
HopIsStored(hop) ==
  \E i \in 1..Len(transaction_store.v) :
    /\ transaction_store.v[i][1] = DictGet(hop, K_tx_hash, None)
    /\ DictGet(transaction_store.v[i][2], K_from, None) = DictGet(hop, K_from, None)
    /\ DictGet(transaction_store.v[i][2], K_to, None) = DictGet(hop, K_to, None)

\* the addresses the search entered along a path: the sender of every hop
EnteredAlong(path) == [k \in 1..Len(path.v) |-> DictGet(path.v[k], K_from, None)]

\* C27: every path query_fund_flow(source, depth) returns is a contiguous
\* chain of stored transactions: the first hop leaves the source, each hop
\* arrives where the next one leaves, every hop agrees with a stored
\* transaction, and the addresses entered along the path are pairwise
\* distinct.
C27_PathsAreChains ==
  last.op = "query_fund_flow"
    => \A p \in 1..Len(last.ret.v) :
         LET path == last.ret.v[p]
         IN  /\ Len(path.v) >= 1
             /\ DictGet(path.v[1], K_from, None) = last.args[1]
             /\ \A k \in 1..(Len(path.v) - 1) :
                  DictGet(path.v[k], K_to, None) = DictGet(path.v[k + 1], K_from, None)
             /\ \A k \in 1..Len(path.v) : HopIsStored(path.v[k])
             /\ \A j, k \in 1..Len(path.v) :
                  EnteredAlong(path)[j] = EnteredAlong(path)[k] => j = k

\* a query that followed A -> B -> A, backtracked, and then followed
\* A -> C -> A returned the two paths, each of two hops
C27_Witness ==
  /\ last.op = "query_fund_flow"
  /\ last.args = <<AddrA, MaxTraceDepth>>
  /\ StoredEdges = {<<AddrA, AddrB>>, <<AddrB, AddrA>>, <<AddrA, AddrC>>, <<AddrC, AddrA>>}
  /\ Len(last.ret.v) = 2
  /\ Len(last.ret.v[1].v) = 2 /\ Len(last.ret.v[2].v) = 2
  /\ PathEnd(last.ret.v[1]) = AddrA /\ PathEnd(last.ret.v[2]) = AddrA


-----------------------------------------------------------------------------
(* SpecCycle, the findings against the stored transfers *)

CyclicFindings == FindingsOfType(S_cyclic_transfers)

\* the hashes of the stored transactions from one address to another
HashesOnEdge(from, to) ==
  {transaction_store.v[i][1] : i \in {j \in 1..Len(transaction_store.v) :
     /\ DictGet(transaction_store.v[j][2], K_from, None) = from
     /\ DictGet(transaction_store.v[j][2], K_to, None) = to}}

\* the address after position i of a cycle, the first one after the last
NextInCycle(cycle, i) == cycle[(i % Len(cycle)) + 1]

\* C22: every cyclic-transfer finding is a cycle of the stored transfers:
\* its addresses are pairwise distinct, a stored transaction goes from each
\* address to the next and from the last to the first, and its transactions
\* are exactly the hashes of the stored transactions on those edges, each
\* listed once.
C22_FindingsAreCycles ==
  \A k \in 1..Len(CyclicFindings) :
    LET cycle == FindingAddresses(CyclicFindings[k])
        hashes == FindingTransactions(CyclicFindings[k])
        on_edges == UNION {HashesOnEdge(cycle[i], NextInCycle(cycle, i)) : i \in 1..Len(cycle)}
    IN  /\ Len(cycle) >= 1
        /\ \A i, j \in 1..Len(cycle) : cycle[i] = cycle[j] => i = j
        /\ \A i \in 1..Len(cycle) : <<cycle[i], NextInCycle(cycle, i)>> \in StoredEdges
        /\ Elements(hashes) = on_edges
        /\ Len(hashes) = Cardinality(on_edges)

\* detection on a store with two transactions A -> B and one B -> A returned
\* a finding that lists the three hashes
C22_Witness ==
  /\ Len(transaction_store.v) = 3
  /\ Cardinality(HashesOnEdge(AddrA, AddrB)) = 2
  /\ Cardinality(HashesOnEdge(AddrB, AddrA)) = 1
  /\ Len(CyclicFindings) = 2
  /\ Len(FindingAddresses(CyclicFindings[1])) = 2
  /\ Len(FindingTransactions(CyclicFindings[1])) = 3

\* the addresses reached from a over at most n stored transfers
RECURSIVE ReachWithin(_, _)
ReachWithin(a, n) ==
  IF n = 0 THEN {a}
  ELSE LET r == ReachWithin(a, n - 1)
       IN  r \cup {e[2] : e \in {d \in StoredEdges : d[1] \in r}}

ReachableFrom(a) == ReachWithin(a, Cardinality(StoredAddresses))

\* a directed cycle of stored transfers can be reached from a
CycleReachable(a) ==
  \E e \in StoredEdges : e[1] \in ReachableFrom(a) /\ e[1] \in ReachableFrom(e[2])

\* the position of the first stored transaction sent by a
FirstSentAt(a) ==
  CHOOSE i \in 1..Len(transaction_store.v) :
    /\ DictGet(transaction_store.v[i][2], K_from, None) = a
    /\ \A j \in 1..(i - 1) : DictGet(transaction_store.v[j][2], K_from, None) # a

\* the starting addresses from which a cycle can be reached
StartsWithCycle == {a \in {e[1] : e \in StoredEdges} : CycleReachable(a)}

\* the k-th of them in the order the detector takes its starting addresses,
\* the order in which they first sent a transaction
KthStartWithCycle(k) ==
  CHOOSE a \in StartsWithCycle :
    Cardinality({b \in StartsWithCycle : FirstSentAt(b) < FirstSentAt(a)}) = k - 1

\* C23: detect_suspicious_patterns emits one cyclic-transfer finding for a
\* starting address when a directed cycle of stored transfers can be reached
\* from it and none otherwise: the findings are as many as such starting
\* addresses, and the k-th finding is a cycle reached from the k-th of them;
\* a store without a cycle yields no cyclic finding.
C23_OneFindingPerStartWithCycle ==
  last.op = "detect_suspicious_patterns"
    => /\ Len(CyclicFindings) = Cardinality(StartsWithCycle)
       /\ \A k \in 1..Len(CyclicFindings) :
            Elements(FindingAddresses(CyclicFindings[k])) \subseteq ReachableFrom(KthStartWithCycle(k))

\* detection on a store holding the two self-transfers A -> A and B -> B and
\* the transfer C -> A returned three findings: one for each of the two
\* cycles, and the cycle of A once more from the start C
C23_Witness ==
  /\ last.op = "detect_suspicious_patterns"
  /\ Len(transaction_store.v) = 3
  /\ StoredEdges = {<<AddrA, AddrA>>, <<AddrB, AddrB>>, <<AddrC, AddrA>>}
  /\ Len(CyclicFindings) = 3
  /\ {FindingAddresses(CyclicFindings[k]) : k \in 1..3} = {<<AddrA>>, <<AddrB>>}

\* detection on a store without a cycle, A -> B, B -> C and A -> C, returned
\* no cyclic finding
C23_AcyclicReached ==
  /\ last.op = "detect_suspicious_patterns"
  /\ StoredEdges = {<<AddrA, AddrB>>, <<AddrB, AddrC>>, <<AddrA, AddrC>>}
  /\ CyclicFindings = <<>>


-----------------------------------------------------------------------------
(* SpecBuckets: transfers of A just before and at the start of the second  *)
(* hour, then detection                                                    *)

MaxBucketsTx == 5

BucketsTx ==
  {Tx(AddrA, AddrB, Absent, BeforeHour, Absent, Absent),
   Tx(AddrA, AddrC, Absent, BeforeHour, Absent, Absent),
   Tx(AddrA, AddrD, Absent, BeforeHour, Absent, Absent),
   Tx(AddrA, AddrD, Absent, AtHour, Absent, Absent)}

NextBuckets ==
  \/ \E tx_data \in BucketsTx : AddTransaction(NextHash, tx_data, MaxBucketsTx)
  \/ DetectSuspiciousPatterns

SpecBuckets == Init /\ [][NextBuckets]_vars

\* the groups the detector forms on the stored transactions by an endpoint
GroupsBy(field) == group_by_endpoint(transaction_store, field, 1, EmptyDict)

\* for every position of the transaction store, the groups that hold the
\* transaction stored there
GroupsHolding(groups) ==
  [i \in 1..Len(transaction_store.v) |->
     {g \in 1..Len(groups.v) : transaction_store.v[i] \in Elements(groups.v[g][2].v)}]

\* timestamp - (timestamp mod 3600) of the stored transaction at position i
WindowOf(i) ==
  TimestampOf(transaction_store.v[i][2])
    - (TimestampOf(transaction_store.v[i][2]) % HourSeconds)

\* the stored transactions all have the sender, lie less than one hour
\* apart, go to three or more receivers, and fewer than five of them fall
\* in each bucket
StraddlesHour(sender) ==
  /\ \A i \in 1..Len(transaction_store.v) :
       DictGet(transaction_store.v[i][2], K_from, None) = sender
  /\ \A i, j \in 1..Len(transaction_store.v) :
       TimestampOf(transaction_store.v[i][2]) - TimestampOf(transaction_store.v[j][2])
         < HourSeconds
  /\ \E i, j \in 1..Len(transaction_store.v) : WindowOf(i) # WindowOf(j)
  /\ Cardinality(Counterparties(1..Len(transaction_store.v), K_to)) >= 3
  /\ \A bucket \in Buckets : Cardinality(GroupOf(K_from, sender, bucket)) < 5

\* C24: the splitting and the merging detector put two stored transactions
\* in one group exactly when they have the same sender (resp. receiver) and
\* the same value of timestamp - (timestamp mod 3600); five transactions of
\* one sender to three or more receivers that lie within one hour of each
\* other but on both sides of an hour boundary, fewer than five in each
\* bucket, yield no fund-splitting finding.
C24_FixedHourBuckets ==
  /\ \A field \in {K_from, K_to} :
       LET holding == GroupsHolding(GroupsBy(field))
           endpoint == [i \in 1..Len(transaction_store.v) |->
                          DictGet(transaction_store.v[i][2], field, None)]
           window == [i \in 1..Len(transaction_store.v) |-> WindowOf(i)]
       IN  \A i, j \in 1..Len(transaction_store.v) :
             (Truthy(endpoint[i]) /\ Truthy(endpoint[j]))
               => (holding[i] \cap holding[j] # {}
                     <=> endpoint[i] = endpoint[j] /\ window[i] = window[j])
  /\ (last.op = "detect_suspicious_patterns" /\ StraddlesHour(AddrA))
       => FindingsOfType(S_fund_splitting) = <<>>

\* detection ran on five transfers of A to B, C and D, some at 3599 and the
\* others at 3600, and returned no splitting finding
C24_Witness ==
  /\ last.op = "detect_suspicious_patterns"
  /\ Len(transaction_store.v) = 5
  /\ StraddlesHour(AddrA)
  /\ {TimestampOf(transaction_store.v[i][2]) : i \in 1..5} = {3599, 3600}
  /\ FindingsOfType(S_fund_splitting) = <<>>


\* detection ran on five transfers of A to B, C and D, all at 3599, and
\* returned one splitting finding
C24_OneBucketReached ==
  /\ last.op = "detect_suspicious_patterns"
  /\ Cardinality(GroupOf(K_from, AddrA, 0)) = 5
  /\ Len(FindingsOfType(S_fund_splitting)) = 1

-----------------------------------------------------------------------------
(* SpecQueries: a client that inserts transfers between A and B, some of   *)
(* them large, registers A, relates A to B, and asks every query           *)

MaxQueriesTx == 2

QueriesTx ==
  {Tx(AddrA, AddrA, IntAbove, Absent, Absent, Absent),
   Tx(AddrA, AddrB, IntAbove, Absent, Absent, Absent),
   Tx(AddrB, AddrA, Absent, Absent, Absent, Absent)}

NextQueries ==
  \/ \E tx_data \in QueriesTx : AddTransaction(NextHash, tx_data, MaxQueriesTx)
  \/ AddEntity(AddrA, Labelled(Exchange))
  \/ AddRelation(AddrA, AddrB, Sent, Labelled(Mixer))
  \/ \E tx_hash \in {Hash1, Hash2} : GetTransaction(tx_hash)
  \/ \E address \in {AddrA, AddrB} : GetEntity(address)
  \/ GetRelations(AddrA)
  \/ \E depth \in 1..2 : QueryFundFlow(AddrA, depth)
  \/ DetectSuspiciousPatterns
  \/ SaveToFile("ok")

SpecQueries == Init /\ [][NextQueries]_vars

QueryOperations ==
  {"detect_suspicious_patterns", "query_fund_flow", "get_transaction", "get_entity",
   "get_relations"}

\* C25: detect_suspicious_patterns, query_fund_flow, get_transaction,
\* get_entity and get_relations leave the four stores as they were, so no
\* finding is written to the pattern store; a detect_suspicious_patterns
\* call that directly follows another returns the same findings.
C25_QueriesLeaveStores ==
  [][last'.op \in QueryOperations
       => /\ KB' = KB
          /\ (last.op = "detect_suspicious_patterns"
              /\ last'.op = "detect_suspicious_patterns") => last'.ret = last.ret]_vars

\* detection ran on a store that holds a large self-transfer of A and
\* returned a cyclic finding; the pattern store holds the large-transfer
\* pattern only
C25_Witness ==
  /\ last.op = "detect_suspicious_patterns"
  /\ <<AddrA, AddrA>> \in StoredEdges
  /\ Len(CyclicFindings) >= 1
  /\ Len(pattern_store.v) = 1
  /\ HasLargeTransfer(Hash1)


\* the keys of a store
KeysOf(store) == Elements(DictKeys(store))

\* C26: along any sequence of store operations without load_from_file, the
\* stored transaction hashes, the entity addresses, the relation keys and
\* the pattern keys only grow: no operation removes one that is present.
C26_StoresOnlyGrow ==
  [][/\ KeysOf(transaction_store) \subseteq KeysOf(transaction_store')
     /\ KeysOf(entity_store) \subseteq KeysOf(entity_store')
     /\ KeysOf(relation_store) \subseteq KeysOf(relation_store')
     /\ KeysOf(pattern_store) \subseteq KeysOf(pattern_store')]_vars

\* after two large transfers, a relation and a registration of A, which was
\* an entity already, the four stores hold two transactions, the entities A
\* and B, one relation and two patterns
C26_Witness ==
  /\ last.op = "add_entity"
  /\ Len(transaction_store.v) = 2
  /\ KeysOf(entity_store) = {AddrA, AddrB}
  /\ DictHas(DictGet(entity_store, AddrA, EmptyDict), K_transactions)
  /\ DictHas(DictGet(entity_store, AddrA, EmptyDict), Label)
  /\ Len(relation_store.v) = 1
  /\ HasLargeTransfer(Hash1) /\ HasLargeTransfer(Hash2)


-----------------------------------------------------------------------------
(* SpecCorrupt, the stores after a load that failed *)

\* C28: whenever load_from_file returns false, the transaction, entity,
\* pattern and relation stores are what they were before the call.
C28_FailedLoadKeepsStores ==
  [][(last'.op = "load_from_file" /\ last'.ret = False) => KB' = KB]_vars

\* a load of a file that holds the document [] returned false on a store
\* that holds a large transfer from A to B: the transaction, its two
\* entities and its pattern are still there
C28_Witness ==
  /\ last.op = "load_from_file"
  /\ last.args = <<"ok">>
  /\ last.ret = False
  /\ disk = FileOf(JArray(<<>>))
  /\ DictHas(transaction_store, Hash1)
  /\ KeysOf(entity_store) = {AddrA, AddrB}
  /\ HasLargeTransfer(Hash1)


-----------------------------------------------------------------------------
(* SpecSelf: transfers among A, B and C, self-transfers included, each     *)
(* carrying the hash it is stored under                                    *)

MaxSelfTx == 2

SelfHashes == {HashSeq[i] : i \in 1..MaxSelfTx}

SelfTx(tx_hash) ==
  {Tx(from, to, Absent, Absent, tx_hash, Absent) : from \in CycleAddrs, to \in CycleAddrs}

NextSelf ==
  \E tx_hash \in SelfHashes : \E tx_data \in SelfTx(tx_hash) :
    AddTransaction(tx_hash, tx_data, MaxSelfTx)

SpecSelf == Init /\ [][NextSelf]_vars

\* the transaction list of the entity record of an address
LinksOf(address) ==
  DictGet(DictGet(entity_store, address, EmptyDict), K_transactions, PyList(<<>>)).v

\* the hashes of the stored transactions that have the address as sender or
\* as receiver
HashesOf(address) ==
  {transaction_store.v[i][1] : i \in {j \in 1..Len(transaction_store.v) :
     \/ DictGet(transaction_store.v[j][2], K_from, None) = address
     \/ DictGet(transaction_store.v[j][2], K_to, None) = address}}

\* C29: after any sequence of add_transaction calls, every entity's
\* transaction list holds each transaction at most once, one entry per
\* stored transaction in which the entity is sender or receiver; a
\* self-transfer adds one entry to the list, not two.
C29_OneLinkPerTransaction ==
  \A i \in 1..Len(entity_store.v) :
    LET address == entity_store.v[i][1]
    IN  /\ Elements(LinksOf(address)) = HashesOf(address)
        /\ Len(LinksOf(address)) = Cardinality(HashesOf(address))

\* What the code does: an entity's list gains one entry for each endpoint
\* role it has in a stored transaction, so a self-transfer is listed twice.
C29_OneLinkPerEndpointRole ==
  \A i \in 1..Len(entity_store.v) :
    LET address == entity_store.v[i][1]
        roles == {p \in (1..Len(transaction_store.v)) \X {K_from, K_to} :
                    DictGet(transaction_store.v[p[1]][2], p[2], None) = address}
    IN  /\ Elements(LinksOf(address)) = HashesOf(address)
        /\ Len(LinksOf(address)) = Cardinality(roles)

\* the self-transfer h1 of A is stored and A's list is [h1, h1]
C29_SelfTransferReached ==
  /\ StoredEdges = {<<AddrA, AddrA>>}
  /\ LinksOf(AddrA) = <<Hash1, Hash1>>


-----------------------------------------------------------------------------
(* SpecAtomic: transactions that carry their hash, some with a value that  *)
(* is not a number, inserted among registrations and relations             *)

MaxAtomicTx == 2

AtomicHashes == {HashSeq[i] : i \in 1..MaxAtomicTx}

AtomicTx(tx_hash) ==
  {Tx(AddrA, to, value, Absent, tx_hash, InputCode) :
     to \in {AddrB, Absent}, value \in {Absent, IntAbove, NotHex}}

NextAtomic ==
  \/ \E tx_hash \in AtomicHashes : \E tx_data \in AtomicTx(tx_hash) :
       AddTransaction(tx_hash, tx_data, MaxAtomicTx)
  \/ AddEntity(AddrC, Registered)
  \/ AddRelation(AddrA, AddrC, Sent, EmptyDict)

SpecAtomic == Init /\ [][NextAtomic]_vars

\* the value of the fields is read as a number above 100 * 10**18
IsLargeTransfer(tx_data) ==
  /\ transfer_value(tx_data).exc = ""
  /\ transfer_value(tx_data).val.ty = "int"
  /\ BigGt(transfer_value(tx_data).val.v, LargeTransferThreshold.v)

\* C30: add_transaction is all-or-nothing: every hash in the transaction
\* store has its present endpoints recorded as entities that list it, its
\* large-transfer pattern when its value is above the threshold and its
\* contract-creation pattern when it has no receiver and an input; a call
\* that does not complete normally leaves the hash out of the store.
C30_AllOrNothing ==
  /\ \A i \in 1..Len(transaction_store.v) :
       LET tx_hash == transaction_store.v[i][1]
           tx_data == transaction_store.v[i][2]
       IN  /\ \A field \in {K_from, K_to} :
                Truthy(DictGet(tx_data, field, None))
                  => EntityLists(DictGet(tx_data, field, None), tx_hash)
           /\ IsLargeTransfer(tx_data) => HasLargeTransfer(tx_hash)
           /\ is_contract_creation(tx_data)
                => HasContractCreation(tx_hash, DictGet(tx_data, K_from, None))
  /\ (last.op = "add_transaction" /\ last.exc # "")
       => ~DictHas(transaction_store, last.args[1])

\* What the code does: the fields are stored and the entities linked before
\* the value is read, so a call that raises leaves the hash in the store,
\* without the patterns of the transaction, and the same hash is refused
\* from then on.
C30_StoredBeforeChecks ==
  (last.op = "add_transaction" /\ last.exc # "")
    => /\ DictGet(transaction_store, last.args[1], None) = last.args[2]
       /\ \A field \in {K_from, K_to} :
            Truthy(DictGet(last.args[2], field, None))
              => EntityLists(DictGet(last.args[2], field, None), last.args[1])
       /\ NoLargeTransfer(last.args[1])
       /\ NoContractCreation(last.args[1])
       /\ \A tx_data \in AtomicTx(last.args[1]) :
            add_transaction(KB, last.args[1], tx_data).ret = False

\* add_transaction of h1, a contract creation with a value that is not a
\* number, raised and h1 is stored
C30_RaisedAndStoredReached ==
  /\ last.op = "add_transaction"
  /\ last.exc = "ValueError"
  /\ last.args[1] = Hash1
  /\ is_contract_creation(last.args[2])
  /\ DictHas(transaction_store, Hash1)


====
